---------------------------- MODULE Spec2Model ----------------------------
(***************************************************************************)
(* Model of the task scheduling and verify/repair pipeline of              *)
(* src/core/coder.py (class Coder and its collaborators).                  *)
(*                                                                         *)
(*   SpecSort : Coder._topological_sort applied to bounded task lists.     *)
(*   Spec     : Coder.execute_coding_tasks driving _execute_single_task    *)
(*              over a small family of projects.                           *)
(***************************************************************************)
EXTENDS Integers, Sequences, FiniteSets, TLC

(***************************************************************************)
(* Bounds of the model.                                                    *)
(***************************************************************************)
NumTasks == 3
MaxEdges == 4
MaxModules == 2
MaxEnvCalls == 3
MaxLines == 2
MaxRuns == 3
MaxResponseLines == 5
MaxLogCalls == 3

(***************************************************************************)
(* Program constants.                                                      *)
(***************************************************************************)
max_attempts == 10

\* code_line_count >= 10 and substantial_lines >= 3
MinCodeLines == 10
MinSubstantialLines == 3

\* id=999 of the task synthesized by _check_and_complete_file
SweepTaskId == 999

\* new_lines[:10]: the lines searched for an import
ImportWindow == 10

VARIABLES
    tasks,          \* project_spec.tasks: the declared task list
    sort_called,    \* _topological_sort has been applied
    sorted_tasks,   \* the list returned by _topological_sort
    sort_raised,    \* _topological_sort raised ValueError
    \* ---- execute_coding_tasks (the driver)
    drv,            \* position of the driver
    idx,            \* position of the for loop in sorted_tasks
    sweep_left,     \* files the discovery sweep has still to visit
    err,            \* the exception that left execute_coding_tasks
    \* ---- _execute_single_task (the engine)
    pc,             \* position inside _execute_single_task
    cur,            \* the task the engine works on
    attempt_count,
    completed,
    current_content,\* file content read at the head of the iteration
    error_msg,      \* diagnostic text of the last sandbox run
    \* ---- the project on disk
    files,          \* content of each source file
    ledger,         \* DEVELOPMENT_LOG.md: the task entries, in the order of the file
    \* ---- observations of the run
    started,        \* identifiers of the tasks handed to the engine, in order
    active,         \* tasks whose engine invocation has not yet ended
    done_tasks,     \* tasks whose engine invocation ended with completed
    effects,        \* kinds of side effect performed so far
    last_child,     \* how the child process of the last sandbox run ended
    run_ok,         \* outcome of the last sandbox run of this iteration
    quality,        \* verdict of the last quality check of this iteration
    last_oracle,    \* outcome of the last oracle step
    last_diag,      \* what DIAGNOSE found and did, until the repair is requested
    step_calls,     \* provider calls made by the last oracle step
    \* ---- the isolated environment of the project (<root>/venv)
    venv,           \* "absent" or "present"
    creations,      \* environments created so far
    env_calls,      \* calls of the environment operations so far
    last_call,      \* what the last environment operation found and did
    installer_runs, \* installer invocations of this run, for each name
    \* ---- EnvironmentManager.detect_missing_modules
    error_text,     \* the failure text, line by line
    project_known,  \* project_root_path and project_tasks are passed
    detect_called,
    missing_modules,\* the list returned
    \* ---- Coder._has_substantial_content on a text
    content_text,   \* the text, as runs of lines of one kind
    substantial_called,
    is_substantial, \* the verdict returned
    \* ---- the project configuration file (config/project.json)
    schema_extended,\* the schema has the fields the scaffolding step reads
    config_file,    \* the file on disk
    scaffold,       \* how Architect.create_project_structure ended
    load_result,    \* how Coder._load_project_spec ended
    \* ---- Coder._check_global_dependencies on a text
    code_text,      \* the text, line by line
    deps_called,
    deps_found,     \* the list returned
    \* ---- the extraction of the text of an oracle response
    response_content,\* response["content"], line by line
    previous_content,\* the previous version of the file, line by line
    extract_called,
    extracted_code, \* returned by _extract_code_from_response
    fix_called,
    fixed_code,     \* fixed_code of _fix_code_with_ai
    \* ---- Coder._update_development_log called on its own
    log_calls,      \* the positions of the tasks it was called for, in order
    \* ---- Orchestrator.conduct_debate
    proposer,       \* self.proposer is a provider (TRUE) or None (FALSE)
    auditor,        \* self.auditor is a provider (TRUE) or None (FALSE)
    debate_pc,      \* "entry", "call" (about to await generate_response), "returned"
    debate_step,    \* the step whose retry loop is running, 0 before the first
    retry_count,    \* retry_count of the running loop
    responses,      \* for each step, response["success"] of the calls made, in order
    debate_log,     \* the speakers of debate_log, "error" for an error entry
    second_audit,   \* where second_audit["content"] comes from
    refined_proposal_content, \* where refined_proposal_content comes from
    debate_result   \* what conduct_debate returned

sortVars == <<tasks, sort_called, sorted_tasks, sort_raised>>

drvVars == <<drv, idx, sweep_left, err>>

engVars == <<pc, cur, attempt_count, completed, current_content, error_msg>>

diskVars == <<files, ledger>>

obsVars ==
    <<started, active, done_tasks, effects, last_child, run_ok, quality, last_oracle,
      last_diag, step_calls>>

envVars == <<venv, creations, env_calls, last_call, installer_runs>>

\* Variables outside the scheduler and the pipeline.
detectVars == <<error_text, project_known, detect_called, missing_modules>>

qualityVars == <<content_text, substantial_called, is_substantial>>

configVars == <<schema_extended, config_file, scaffold, load_result>>

depsVars == <<code_text, deps_called, deps_found>>

\* Variables of the functions checked on their own.
extractVars ==
    <<response_content, previous_content, extract_called, extracted_code, fix_called,
      fixed_code>>

logVars == <<log_calls>>

debateVars ==
    <<proposer, auditor, debate_pc, debate_step, retry_count, responses, debate_log,
      second_audit, refined_proposal_content, debate_result>>

unitVars == <<depsVars, extractVars, logVars, debateVars>>

auxVars == <<envVars, detectVars, qualityVars, configVars, unitVars>>

pipelineVars == <<sortVars, drvVars, engVars, diskVars, obsVars>>

vars == <<sortVars, drvVars, engVars, diskVars, obsVars, auxVars>>

(***************************************************************************)
(* Generic helpers.                                                        *)
(***************************************************************************)
Range(s) == {s[i] : i \in 1..Len(s)}

IsStrictlyAscending(s) == \A i \in 1..(Len(s) - 1) : s[i] < s[i + 1]

SeqsUpTo(S, n) == UNION {[1..k -> S] : k \in 0..n}

(***************************************************************************)
(* schema.project.Task: the fields the pipeline reads.  The identifier of  *)
(* a task is independent of its position in the list: the k-th declared    *)
(* task carries identifier NumTasks + 1 - k, so declaration order and      *)
(* identifier order differ.                                                *)
(***************************************************************************)
PathOf(i) == <<"src", i>>

Task(i, t, d) == [id |-> i, title |-> t, dependencies |-> d, target_path |-> PathOf(i)]

IdAt(k) == NumTasks + 1 - k

TitleOf(i) == <<"title", i>>

TaskIds == {IdAt(k) : k \in 1..NumTasks}

\* An identifier that no task of the list carries.
ForeignId == NumTasks + 1

DepIds == TaskIds \cup {ForeignId}

\* The identifiers of a set, as a list in ascending order.
RECURSIVE ListOf(_)
ListOf(S) ==
    IF S = {} THEN <<>>
    ELSE LET m == CHOOSE x \in S : \A y \in S : x <= y
         IN <<m>> \o ListOf(S \ {m})

\* A project's dependency lists name at most MaxEdges identifiers in all.
EdgeSets == {E \in SUBSET ((1..NumTasks) \X DepIds) : Cardinality(E) <= MaxEdges}

\* The task list whose k-th task depends on the identifiers E pairs with k.
ProjectOf(E) ==
    [k \in 1..NumTasks |->
        Task(IdAt(k), TitleOf(IdAt(k)), ListOf({e[2] : e \in {x \in E : x[1] = k}}))]

TaskLists == {ProjectOf(E) : E \in EdgeSets}

(***************************************************************************)
(* Coder._topological_sort (Kahn's algorithm), computed as the code does.  *)
(***************************************************************************)
\* Keys of a dict built by a comprehension over ts, in insertion order.
RECURSIVE DictKeys(_, _)
DictKeys(ts, k) ==
    IF k = 0 THEN <<>>
    ELSE LET prev == DictKeys(ts, k - 1)
         IN IF ts[k].id \in Range(prev) THEN prev ELSE Append(prev, ts[k].id)

\* graph = {task.id: [] ...}; in_degree = {task.id: 0 ...}
EmptyGraph(ts) ==
    [graph |-> [i \in {ts[k].id : k \in 1..Len(ts)} |-> <<>>],
     in_degree |-> [i \in {ts[k].id : k \in 1..Len(ts)} |-> 0]]

\* The edge recorded from the task to its dependency instead of the reverse.
RECURSIVE FillDepsReversed(_, _, _)
FillDepsReversed(g, t, j) ==
    IF j > Len(t.dependencies) THEN g
    ELSE LET dep_id == t.dependencies[j]
         IN IF dep_id \in DOMAIN g.graph
            THEN FillDepsReversed(
                    [graph |-> [g.graph EXCEPT ![t.id] = Append(@, dep_id)],
                     in_degree |-> [g.in_degree EXCEPT ![dep_id] = @ + 1]],
                    t, j + 1)
            ELSE FillDepsReversed(g, t, j + 1)

\* A dependency outside the list counted in the in-degree of the task.
RECURSIVE FillDepsCountsForeign(_, _, _)
FillDepsCountsForeign(g, t, j) ==
    IF j > Len(t.dependencies) THEN g
    ELSE LET dep_id == t.dependencies[j]
         IN IF dep_id \in DOMAIN g.graph
            THEN FillDepsCountsForeign(
                    [graph |-> [g.graph EXCEPT ![dep_id] = Append(@, t.id)],
                     in_degree |-> [g.in_degree EXCEPT ![t.id] = @ + 1]],
                    t, j + 1)
            ELSE FillDepsCountsForeign(
                    [graph |-> g.graph,
                     in_degree |-> [g.in_degree EXCEPT ![t.id] = @ + 1]],
                    t, j + 1)

\* inner loop: for dep_id in task.dependencies (from position j on)
RECURSIVE FillDeps(_, _, _)
FillDeps(g, t, j) ==
    IF j > Len(t.dependencies) THEN g
    ELSE LET dep_id == t.dependencies[j]
         IN IF dep_id \in DOMAIN g.graph
            THEN FillDeps(
                    [graph |-> [g.graph EXCEPT ![dep_id] = Append(@, t.id)],
                     in_degree |-> [g.in_degree EXCEPT ![t.id] = @ + 1]],
                    t, j + 1)
            ELSE FillDeps(g, t, j + 1)

\* outer loop: for task in tasks (from position k on)
RECURSIVE FillGraph(_, _, _)
FillGraph(g, ts, k) ==
    IF k > Len(ts) THEN g
    ELSE FillGraph(FillDeps(g, ts[k], 1), ts, k + 1)

\* for task in tasks: if task.id == wanted: ... break
FindTask(ts, wanted) ==
    ts[CHOOSE k \in 1..Len(ts) :
          /\ ts[k].id = wanted
          /\ \A m \in 1..(k - 1) : ts[m].id # wanted]

\* queue seeded from in_degree.items(), in dict order
RECURSIVE SeedQueue(_, _, _, _)
SeedQueue(ts, keys, in_degree, k) ==
    IF k > Len(keys) THEN <<>>
    ELSE IF in_degree[keys[k]] = 0
         THEN <<FindTask(ts, keys[k])>> \o SeedQueue(ts, keys, in_degree, k + 1)
         ELSE SeedQueue(ts, keys, in_degree, k + 1)

\* for neighbor_id in graph[current_task.id] (from position j on);
\* st = [queue, in_degree]
RECURSIVE Relax(_, _, _, _)
Relax(ts, st, nbrs, j) ==
    IF j > Len(nbrs) THEN st
    ELSE LET n == nbrs[j]
             deg == st.in_degree[n] - 1
             q == IF deg = 0 THEN Append(st.queue, FindTask(ts, n)) ELSE st.queue
         IN Relax(ts, [queue |-> q, in_degree |-> [st.in_degree EXCEPT ![n] = deg]],
                  nbrs, j + 1)

\* queue.pop() in place of queue.pop(0).
QueuePopLast(q) == [task |-> q[Len(q)], rest |-> SubSeq(q, 1, Len(q) - 1)]

\* queue.pop(0): the task taken from the ready queue, and what remains
QueuePop(q) == [task |-> Head(q), rest |-> Tail(q)]

\* while queue: ...
RECURSIVE KahnLoop(_, _, _, _)
KahnLoop(ts, graph, st, out) ==
    IF st.queue = <<>> THEN out
    ELSE LET p == QueuePop(st.queue)
             current_task == p.task
             st2 == Relax(ts, [queue |-> p.rest, in_degree |-> st.in_degree],
                          graph[current_task.id], 1)
         IN KahnLoop(ts, graph, st2, Append(out, current_task))

\* The cycle check left out.
CycleCheckNever(out, ts) == FALSE

\* the cycle check at the end of _topological_sort
CycleCheck(out, ts) == Len(out) # Len(ts)

TopologicalSort(ts) ==
    LET g == FillGraph(EmptyGraph(ts), ts, 1)
        queue == SeedQueue(ts, DictKeys(ts, Len(ts)), g.in_degree, 1)
        out == KahnLoop(ts, g.graph, [queue |-> queue, in_degree |-> g.in_degree], <<>>)
    IN IF CycleCheck(out, ts)
       THEN [raised |-> TRUE, sorted |-> <<>>]
       ELSE [raised |-> FALSE, sorted |-> out]

(***************************************************************************)
(* The dependency relation of a task list, stated without the algorithm.   *)
(***************************************************************************)
IdsOf(ts) == {ts[k].id : k \in 1..Len(ts)}

\* The dependencies of t that name a task of the list.
InListDeps(t, ts) == Range(t.dependencies) \cap IdsOf(ts)

\* <<a, b>>: task a names task b as a dependency
DependsOn(ts) == UNION {{<<ts[k].id, d>> : d \in InListDeps(ts[k], ts)} : k \in 1..Len(ts)}

RECURSIVE Closure(_, _)
Closure(R, n) ==
    IF n = 0 THEN R
    ELSE LET C == Closure(R, n - 1)
         IN C \cup {<<q[1][1], q[2][2]>> : q \in {p \in C \X R : p[1][2] = p[2][1]}}

HasCycle(ts) == \E i \in IdsOf(ts) : <<i, i>> \in Closure(DependsOn(ts), Len(ts))

\* Position of the task with identifier i in a list of tasks (0 if absent).
PosOf(out, i) ==
    IF \E k \in 1..Len(out) : out[k].id = i
    THEN CHOOSE k \in 1..Len(out) : out[k].id = i
    ELSE 0

IdsIn(out) == [k \in 1..Len(out) |-> out[k].id]

(***************************************************************************)
(* The project on disk.  A source file is identified by the class of its   *)
(* text:                                                                   *)
(*   "empty"        no text                                                *)
(*   "placeholder"  the scaffold's stub: TODO/description markers, not     *)
(*                  substantial                                            *)
(*   "thin"         no markers, not substantial                            *)
(*   "full"         substantial                                            *)
(***************************************************************************)
Contents == {"empty", "placeholder", "thin", "full"}

\* A source file under src/ that no declared task targets.
OrphanPath == PathOf(ForeignId)

SourcePaths == {PathOf(i) : i \in TaskIds} \cup {OrphanPath}

\* Coder._has_substantial_content, on the class of the text
HasSubstantialContent(c) == c = "full"

\* _check_and_complete_file: (has_todo or has_description) and not substantial
NeedsCompletion(c) == c = "placeholder"

\* The task _check_and_complete_file synthesizes for a file.
SweepTask(path) ==
    [id |-> SweepTaskId, title |-> <<"Complete", path[2]>>, dependencies |-> <<>>,
     target_path |-> path]

(***************************************************************************)
(* The oracle (BaseProvider.generate_response).  The providers of the      *)
(* repository return a failure as a value; the engine's handler also       *)
(* covers a call (or the file I/O next to it) that raises.                 *)
(***************************************************************************)
OracleResponses ==
    {[raises |-> FALSE, success |-> TRUE, content |-> c] :
        c \in {"placeholder", "thin", "full"}}
    \cup {[raises |-> FALSE, success |-> FALSE, content |-> "empty"]}
    \cup {[raises |-> TRUE, success |-> FALSE, content |-> "empty"]}

OracleOutcome(r) == IF r.raises THEN "raise" ELSE IF r.success THEN "ok" ELSE "fail"

\* Coder._extract_code_from_response: response.get("content", "")
ExtractCode(response, original_content) == response.content

\* Coder._write_code_to_file: the text that ends up in the file
WriteCode(new_code, original_content) == new_code

\* The content of the response returned also when the call failed.
FixCodeWithAIUnchecked(response, current_code) == response.content

\* Coder._fix_code_with_ai: the fixed code, or the current code on failure
FixCodeWithAI(response, current_code) ==
    IF response.success THEN response.content ELSE current_code

(***************************************************************************)
(* The sandbox (Coder._test_run_file).                                     *)
(***************************************************************************)
ChildResults == {"exit0", "exit_module", "exit_other", "timeout", "spawn_error"}

\* No clause for subprocess.TimeoutExpired: the expiry reported as any error.
TestRunFileNoTimeoutClause(child) ==
    CASE child = "exit0"       -> [success |-> TRUE,  error_msg |-> "", child_running |-> FALSE]
      [] child = "exit_module" -> [success |-> FALSE, error_msg |-> "ModuleNotFoundError",
                                   child_running |-> FALSE]
      [] child = "exit_other"  -> [success |-> FALSE, error_msg |-> "Traceback",
                                   child_running |-> FALSE]
      [] child = "timeout"     -> [success |-> FALSE, error_msg |-> "spawn error",
                                   child_running |-> FALSE]
      [] child = "spawn_error" -> [success |-> FALSE, error_msg |-> "spawn error",
                                   child_running |-> FALSE]

TestRunFile(child) ==
    CASE child = "exit0"       -> [success |-> TRUE,  error_msg |-> "", child_running |-> FALSE]
      [] child = "exit_module" -> [success |-> FALSE, error_msg |-> "ModuleNotFoundError",
                                   child_running |-> FALSE]
      [] child = "exit_other"  -> [success |-> FALSE, error_msg |-> "Traceback",
                                   child_running |-> FALSE]
      [] child = "timeout"     -> [success |-> FALSE, error_msg |-> "timeout (30s)",
                                   child_running |-> FALSE]
      [] child = "spawn_error" -> [success |-> FALSE, error_msg |-> "spawn error",
                                   child_running |-> FALSE]

\* "ModuleNotFoundError" in error_msg or "ImportError" in error_msg
IsModuleError(msg) == msg = "ModuleNotFoundError"

(***************************************************************************)
(* DEVELOPMENT_LOG.md.  The scaffolding step writes one entry               *)
(* "### 任务: <title>" per declared task, in declaration order.             *)
(* Coder._update_development_log looks the task up with                    *)
(* content.find("### 任务: " + title): the first entry whose heading        *)
(* starts with the title.  If the text from there to the next entry has    *)
(* the marker, nothing is done; otherwise content.replace(..., 1) puts the *)
(* marker line right after the matched text, which cuts a longer heading   *)
(* at the title.  A title no heading starts with leaves the log as it was. *)
(***************************************************************************)
DevelopmentLog(ts) == [k \in 1..Len(ts) |-> [heading |-> ts[k].title, markers |-> 0]]

\* "### 任务: " + t occurs at the start of the heading h
StartsWith(h, t) == Len(t) <= Len(h) /\ SubSeq(h, 1, Len(t)) = t

\* content.find(task_marker): the first entry matched, 0 when there is none
FindEntry(lg, title) ==
    LET hits == {k \in DOMAIN lg : StartsWith(lg[k].heading, title)}
    IN IF hits = {} THEN 0 ELSE CHOOSE k \in hits : \A j \in hits : k <= j

\* completed_marker in content[i : i + content[i:].find('\n### ')], i being
\* the place of the entry: the text of the entry up to the next heading; after
\* the last entry find gives -1 and the slice is empty.
SectionHasMarker(lg, k) == k < Len(lg) /\ lg[k].markers > 0

UpdateDevelopmentLog(lg, task) ==
    LET k == FindEntry(lg, task.title)
    IN IF k = 0 \/ SectionHasMarker(lg, k)
       THEN lg
       ELSE [lg EXCEPT ![k] = [heading |-> task.title, markers |-> @.markers + 1]]

\* The log has an entry of this title that carries the completion marker.
HasMarker(lg, task) == \E k \in DOMAIN lg : lg[k].heading = task.title /\ lg[k].markers > 0

\* No entry of the log carries the marker.
NoMarkers(lg) == \A k \in DOMAIN lg : lg[k].markers = 0

(***************************************************************************)
(* Errors that leave execute_coding_tasks.                                 *)
(***************************************************************************)
NoError == [kind |-> "none", site |-> "none", names_id |-> FALSE,
            names_title |-> FALSE, has_diag |-> FALSE]

\* raise ValueError(...) in _topological_sort
CycleError == [kind |-> "ValueError", site |-> "sort", names_id |-> FALSE,
               names_title |-> FALSE, has_diag |-> FALSE]

\* raise RuntimeError(f"... {task.id} ({task.title}): {str(e)}") in the handler
HandlerError == [kind |-> "RuntimeError", site |-> "except", names_id |-> TRUE,
                 names_title |-> TRUE, has_diag |-> TRUE]

\* raise RuntimeError(f"... {task.id} ({task.title}) ...") after the loop
BudgetError == [kind |-> "RuntimeError", site |-> "after", names_id |-> TRUE,
                names_title |-> TRUE, has_diag |-> FALSE]

\* pydantic.ValidationError raised by Task(...) in _check_and_complete_file
SchemaError == [kind |-> "ValidationError", site |-> "sweep", names_id |-> FALSE,
                names_title |-> FALSE, has_diag |-> FALSE]

(***************************************************************************)
(* The isolated environment: Coder.setup_project_environment and           *)
(* EnvironmentManager.install_missing_modules.                             *)
(***************************************************************************)
ModuleNames == {"requests", "opencv-python"}

ModuleLists == UNION {[1..n -> ModuleNames] : n \in 0..MaxModules}

\* how venv.create ends
CreateResults == {"ok", "raises"}

\* how subprocess.run([pip, "install", module]) ends
PipResults == {"exit0", "nonzero", "raises"}

NoCall == [op |-> "none", found |-> "present", created |-> 0, raised |-> FALSE,
           modules |-> <<>>, pip |-> <<>>, invoked |-> <<>>, skipped |-> {},
           success |-> TRUE]

\* The environment created whatever is there.
NeedsCreationAlways(v) == TRUE

\* if not venv_path.exists():
NeedsCreation(v) == v = "absent"

\* The loop leaving at the first name that fails.
KeepGoingUntilFailure(st) == st.success

\* for module in modules: no break, no return inside the loop
KeepGoing(st) == TRUE

\* The body of the loop of install_missing_modules for modules[k], from the
\* state st left by the earlier names.  An exception of venv.create or of
\* subprocess.run is caught by the handler of the body.
InstallOne(modules, create, pip, k, st) ==
    IF NeedsCreation(st.venv) /\ create[k] = "raises"
    THEN [st EXCEPT !.success = FALSE, !.skipped = @ \cup {k}]
    ELSE [venv |-> "present",
          created |-> st.created + (IF NeedsCreation(st.venv) THEN 1 ELSE 0),
          invoked |-> Append(st.invoked, modules[k]),
          skipped |-> st.skipped,
          success |-> st.success /\ pip[k] = "exit0"]

RECURSIVE InstallLoop(_, _, _, _, _)
InstallLoop(modules, create, pip, k, st) ==
    IF k > Len(modules) \/ ~KeepGoing(st)
    THEN st
    ELSE InstallLoop(modules, create, pip, k + 1, InstallOne(modules, create, pip, k, st))

\* install_missing_modules(modules, project_root_path)
InstallMissingModules(modules, create, pip, v) ==
    InstallLoop(modules, create, pip, 1,
                [venv |-> v, created |-> 0, invoked |-> <<>>, skipped |-> {},
                 success |-> TRUE])

\* The occurrences of the name m in a list of names.
Occurrences(m, names) == Cardinality({k \in 1..Len(names) : names[k] = m})

\* EnvironmentManager has static methods only and keeps nothing between calls.
NoRuns == [m \in ModuleNames |-> 0]

IdleEnv ==
    /\ venv = "present"
    /\ creations = 0
    /\ env_calls = 0
    /\ last_call = NoCall
    /\ installer_runs = NoRuns

(***************************************************************************)
(* EnvironmentManager.detect_missing_modules.  A failure text is a list of *)
(* lines, each of one of the forms the five patterns look for; a string    *)
(* captured by a pattern is the name together with the quotes the pattern  *)
(* has taken in with it.                                                   *)
(***************************************************************************)
\* "ModuleNotFoundError: No module named 'x'", "ImportError: No module named 'x'",
\* "ImportError: No module named x", "cannot import name 'x' from ...",
\* "name 'x' is not defined"
LineForms == {"ModuleNotFoundError", "ImportError", "unquoted", "cannot_import",
              "not_defined"}

\* cv2 is in the alias table, utils is a directory of the project, app is the
\* module of a task (target app.py), profile contains a word of the skip list.
ImportNames == {"cv2", "requests", "utils", "app", "profile"}

ErrorLines == [form : LineForms, name : ImportNames]

ErrorTexts == UNION {[1..n -> ErrorLines] : n \in 0..MaxLines}

\* re.findall(pattern, line): the strings the pattern captures in one line
Captures(pattern, line) ==
    CASE pattern = 1 ->
            IF line.form = "ModuleNotFoundError"
            THEN <<[name |-> line.name, quoted |-> FALSE]>> ELSE <<>>
      [] pattern = 2 ->
            IF line.form = "ImportError"
            THEN <<[name |-> line.name, quoted |-> FALSE]>> ELSE <<>>
      [] pattern = 3 ->
            \* No module named ([^,\s]+): the quotes belong to the capture
            IF line.form \in {"ModuleNotFoundError", "ImportError"}
            THEN <<[name |-> line.name, quoted |-> TRUE]>>
            ELSE IF line.form = "unquoted"
                 THEN <<[name |-> line.name, quoted |-> FALSE]>> ELSE <<>>
      [] pattern = 4 ->
            IF line.form = "cannot_import"
            THEN <<[name |-> line.name, quoted |-> FALSE]>> ELSE <<>>
      [] pattern = 5 ->
            IF line.form = "not_defined"
            THEN <<[name |-> line.name, quoted |-> FALSE]>> ELSE <<>>

RECURSIVE FindAll(_, _, _)
FindAll(pattern, text, k) ==
    IF k = 0 THEN <<>> ELSE FindAll(pattern, text, k - 1) \o Captures(pattern, text[k])

\* any(skip in module for skip in ['built-in', 'file', '<frozen', '__main__'])
HasSkipWord(module) == module.name = "profile"

\* a directory <root>/<first part>, <root>/src/<first part> or <root>/lib/<first part>
IsLocalModule(module) == ~module.quoted /\ module.name = "utils"

\* module in task_target_modules
IsTaskModule(module) == ~module.quoted /\ module.name = "app"

AliasTable ==
    ("cv2" :> "opencv-python") @@ ("PIL" :> "Pillow") @@ ("sklearn" :> "scikit-learn")
    @@ ("flask" :> "Flask") @@ ("jwt" :> "PyJWT")

\* if module == 'cv2': ... elif module == 'PIL': ...
InAliasTable(module) == ~module.quoted /\ module.name \in DOMAIN AliasTable

\* the body of "for match in matches" for one captured string
AddModule(modules, module, known) ==
    IF module \in Range(modules) \/ HasSkipWord(module) THEN modules
    ELSE IF known /\ (IsLocalModule(module) \/ IsTaskModule(module)) THEN modules
    ELSE IF InAliasTable(module)
         THEN Append(modules, [name |-> AliasTable[module.name], quoted |-> FALSE])
         ELSE Append(modules, module)

RECURSIVE AddAll(_, _, _, _)
AddAll(modules, matches, k, known) ==
    IF k > Len(matches) THEN modules
    ELSE AddAll(AddModule(modules, matches[k], known), matches, k + 1, known)

RECURSIVE DetectFrom(_, _, _, _)
DetectFrom(pattern, modules, text, known) ==
    IF pattern > 5 THEN modules
    ELSE DetectFrom(pattern + 1,
                    AddAll(modules, FindAll(pattern, text, Len(text)), 1, known),
                    text, known)

\* detect_missing_modules(error_msg, project_root_path, project_tasks)
DetectMissingModules(text, known) == DetectFrom(1, <<>>, text, known)

IdleDetect ==
    /\ error_text = <<>>
    /\ project_known = TRUE
    /\ detect_called = FALSE
    /\ missing_modules = <<>>

(***************************************************************************)
(* Coder._has_substantial_content on a text.  A text is a list of lines,   *)
(* each of one of the kinds the method tells apart.                        *)
(***************************************************************************)
\* comment:   a blank line or a line that starts with #
\* docstring: a block comment opened and closed on the line
\* quotes:    a line with one triple-quote delimiter
\* pass:      the line "pass"
\* todo:      a short statement with the word TODO (in any case)
\* short:     another statement of at most 20 characters without keyword
\* keyword:   a line with one of 'def ', 'class ', 'if ', ..., 'import', 'from'
\* long:      a line of more than 20 characters without keyword
LineKinds == {"comment", "docstring", "quotes", "pass", "todo", "short", "keyword", "long"}

RunLengths == {1, 2, 7}

Runs == [kind : LineKinds, n : RunLengths]

ContentTexts == UNION {[1..m -> Runs] : m \in 0..MaxRuns}

\* The lines of a text given as runs.
RECURSIVE LinesOf(_, _)
LinesOf(text, m) ==
    IF m = 0 THEN <<>>
    ELSE LinesOf(text, m - 1) \o [j \in 1..text[m].n |-> text[m].kind]

\* if '"""' in stripped or "'''" in stripped
HasTripleQuote(line) == line \in {"docstring", "quotes"}

\* The loop over the lines from position k on: a line of a kind in toggling
\* flips in_multiline_comment; the lines appended to code_lines.
RECURSIVE StripComments(_, _, _, _)
StripComments(lines, k, in_multiline_comment, toggling) ==
    IF k > Len(lines) THEN <<>>
    ELSE IF lines[k] \in toggling
         THEN StripComments(lines, k + 1, ~in_multiline_comment, toggling)
         ELSE IF in_multiline_comment \/ lines[k] = "comment" \/ HasTripleQuote(lines[k])
              THEN StripComments(lines, k + 1, in_multiline_comment, toggling)
              ELSE <<lines[k]>> \o StripComments(lines, k + 1, in_multiline_comment, toggling)

\* code_lines of _has_substantial_content: every line with a triple quote flips
CodeLines(lines) == StripComments(lines, 1, FALSE, {"docstring", "quotes"})

CountOf(lines, kinds) == Cardinality({k \in 1..Len(lines) : lines[k] \in kinds})

\* return not has_todo and not has_pass and code_line_count >= 10
\*        and substantial_lines >= 3
Verdict(code_lines) ==
    /\ CountOf(code_lines, {"todo"}) = 0
    /\ CountOf(code_lines, {"pass"}) = 0
    /\ Len(code_lines) >= MinCodeLines
    /\ CountOf(code_lines, {"keyword", "long"}) >= MinSubstantialLines

HasSubstantialContentOf(lines) == Verdict(CodeLines(lines))

IdleQuality ==
    /\ content_text = <<>>
    /\ substantial_called = FALSE
    /\ is_substantial = FALSE

(***************************************************************************)
(* The project configuration file: written by                              *)
(* Architect.create_project_structure, read by Coder._load_project_spec.   *)
(***************************************************************************)
\* The fields of schema.project.ProjectSpec.  The scaffolding step and the
\* oracle prompt use architecture_proposal and updated_at, which the schema
\* of the repository does not declare; extended stands for a schema that does.
ProjectSpecFields(extended) ==
    {"project_name", "description", "version", "tasks", "created_at", "author",
     "tech_stack", "config", "metadata"}
    \cup (IF extended THEN {"architecture_proposal", "updated_at"} ELSE {})

NoFile == [exists |-> FALSE, keys |-> {}, tasks |-> <<>>]

\* A configuration file with the task list, as a caller of Coder has to supply.
FileWithTasks(ts) ==
    [exists |-> TRUE,
     keys |-> {"project_name", "description", "version", "tasks"},
     tasks |-> ts]

\* config_content of create_project_structure
ConfigContent(spec_tasks) ==
    [exists |-> TRUE,
     keys |-> {"project_name", "description", "version", "architecture_proposal",
               "created_at", "updated_at"},
     tasks |-> <<>>]

\* create_project_structure for a specification that validates: the attribute
\* spec.architecture_proposal is read (TECH_PROPOSAL.md) before the
\* configuration file is written; an attribute the schema lacks raises.
CreateProjectStructure(spec_tasks, extended, old_file) ==
    IF "architecture_proposal" \notin ProjectSpecFields(extended)
    THEN [result |-> "AttributeError", file |-> old_file]
    ELSE [result |-> "ok", file |-> ConfigContent(spec_tasks)]

NotLoaded == [raised |-> "not_called", tasks |-> <<>>]

\* Coder._load_project_spec
LoadProjectSpec(file) ==
    IF ~file.exists THEN [raised |-> "FileNotFoundError", tasks |-> <<>>]
    ELSE IF "tasks" \notin file.keys \/ file.tasks = <<>>
         THEN [raised |-> "ValueError", tasks |-> <<>>]
         ELSE [raised |-> "none", tasks |-> file.tasks]

IdleConfig ==
    /\ schema_extended = FALSE
    /\ config_file = NoFile
    /\ scaffold = "none"
    /\ load_result = NotLoaded

(***************************************************************************)
(* Coder._check_global_dependencies on a text.  A text is a list of lines  *)
(* joined by '\n'; a line is known by the patterns of the method that      *)
(* occur in it and by the word it ends with ('sys\n' and 'os\n' need the   *)
(* line break that follows a line which is not the last).                  *)
(***************************************************************************)
CodeLine(text, has, ends) == [text |-> text, has |-> has, ends |-> ends]

SampleLines ==
    {CodeLine("import sys", {"import sys"}, "sys"),
     CodeLine("sys.exit(0)", {"sys."}, ""),
     CodeLine("import os", {"import os"}, "os"),
     CodeLine("os.getcwd()", {"os."}, ""),
     CodeLine("import cv2", {"import cv2"}, ""),
     CodeLine("cv2.imread(p)", {"cv2."}, ""),
     CodeLine("import numpy as np", {"import numpy", "numpy"}, ""),
     CodeLine("np.zeros(3)", {"np."}, ""),
     CodeLine("from PyQt5.QtWidgets import QApplication",
              {"from PyQt5.QtWidgets import", "QApplication"}, ""),
     CodeLine("app = QApplication([])", {"QApplication"}, ""),
     CodeLine("pos = 1", {"os "}, ""),
     CodeLine("x = 1", {}, "")}

CodeTexts == UNION {[1..m -> SampleLines] : m \in 0..MaxLines}

\* pattern in code, for a pattern without line break
In(pattern, code) == \E k \in 1..Len(code) : pattern \in code[k].has

\* word + '\n' in code
InAtLineEnd(word, code) == \E k \in 1..(Len(code) - 1) : code[k].ends = word

\* The conditions of the five if statements, as Python groups them: 'and'
\* binds tighter than 'or'.
MissingPyQt5(code) ==
    /\ In("QApplication", code)
    /\ ~In("from PyQt5.QtWidgets import", code)
    /\ ~In("import PyQt5", code)

MissingSys(code) ==
    \/ In("sys.", code)
    \/ In("sys ", code)
    \/ (InAtLineEnd("sys", code) /\ ~In("import sys", code))

MissingOs(code) ==
    \/ In("os.", code)
    \/ In("os ", code)
    \/ (InAtLineEnd("os", code) /\ ~In("import os", code))

MissingCv2(code) == ~In("import cv2", code) /\ (In("cv2.", code) \/ In("cv2 ", code))

MissingNumpy(code) == ~In("import numpy", code) /\ (In("np.", code) \/ In("numpy", code))

\* _check_global_dependencies(code): the list missing_deps
CheckGlobalDependencies(code) ==
    (IF MissingPyQt5(code) THEN <<"PyQt5">> ELSE <<>>)
    \o (IF MissingSys(code) THEN <<"sys">> ELSE <<>>)
    \o (IF MissingOs(code) THEN <<"os">> ELSE <<>>)
    \o (IF MissingCv2(code) THEN <<"opencv-python">> ELSE <<>>)
    \o (IF MissingNumpy(code) THEN <<"numpy">> ELSE <<>>)

IdleDeps ==
    /\ code_text = <<>>
    /\ deps_called = FALSE
    /\ deps_found = <<>>

(***************************************************************************)
(* The text taken from an oracle response.  A text is the list of its      *)
(* lines, text.split('\n'): the empty text is the list of one empty line,  *)
(* and a text that ends with a line break has an empty last line.          *)
(***************************************************************************)
\* "[fence]" stands for the three backquotes of a fence.
ResponseLines == {"[fence]python", "[fence]", "text", "import os", ""}

ResponseTexts == UNION {[1..m -> ResponseLines] : m \in 1..MaxResponseLines}

\* The previous version of the file: empty, plain, or with a header line.
OriginalContents == {<<"">>, <<"text">>, <<"import os", "text">>}

IsFence(line) == line \in {"[fence]python", "[fence]"}

\* stripped_line.startswith("import ") or stripped_line.startswith("from ")
IsImportLine(line) == line = "import os"

Least(S) == CHOOSE k \in S : \A j \in S : k <= j

Greatest(S) == CHOOSE k \in S : \A j \in S : j <= k

\* str.strip() of a text whose lines have no blanks at their ends: the empty
\* lines at the two ends go
Strip(text) ==
    LET full == {k \in 1..Len(text) : text[k] # ""}
    IN IF full = {} THEN <<"">> ELSE SubSeq(text, Least(full), Greatest(full))

\* The loop over original_lines of _extract_code_from_response and of
\* _write_code_to_file, from line k on: header lines are kept up to the first
\* line that is neither header, comment nor empty.
RECURSIVE HeaderLines(_, _)
HeaderLines(original_lines, k) ==
    IF k > Len(original_lines) THEN <<>>
    ELSE IF IsImportLine(original_lines[k]) \/ original_lines[k] = ""
         THEN <<original_lines[k]>> \o HeaderLines(original_lines, k + 1)
         ELSE <<>>

\* any(line.strip().startswith(("import ", "from ")) for line in lines[:10])
HasImportsAtTop(lines) ==
    \E k \in 1..Len(lines) : k <= ImportWindow /\ IsImportLine(lines[k])

\* '\n'.join(header) + '\n' + code if there is a header and the code has no
\* import among its first lines, else code
WithHeader(code, original_content) ==
    LET header == HeaderLines(original_content, 1)
    IN IF header # <<>> /\ ~HasImportsAtTop(code) THEN header \o code ELSE code

\* The lines between the first and the last fence, with the line break that
\* precedes the last fence: content[start_idx:end_idx+3][first_newline+1:-3]
BetweenOutermostFences(content) ==
    LET fences == {k \in 1..Len(content) : IsFence(content[k])}
    IN SubSeq(content, Least(fences) + 1, Greatest(fences) - 1) \o <<"">>

\* Coder._extract_code_from_response(response, original_content), on
\* content = response.get("content", "")
ExtractCodeFromResponse(content, original_content) ==
    LET fences == {k \in 1..Len(content) : IsFence(content[k])}
    IN IF fences # {} /\ Least(fences) # Greatest(fences)
       THEN Strip(WithHeader(BetweenOutermostFences(content), original_content))
       ELSE Strip(content)

\* The extraction inside _fix_code_with_ai for a response with success:
\* from the first fence with the word python to the next fence, or to the end
FixExtract(content) ==
    LET opened == {k \in 1..Len(content) : content[k] = "[fence]python"}
    IN IF opened = {} THEN content
       ELSE LET start == Least(opened)
                closing == {k \in (start + 1)..Len(content) : IsFence(content[k])}
            IN IF closing # {}
               THEN <<"">> \o SubSeq(content, start + 1, Least(closing) - 1) \o <<"">>
               ELSE <<"">> \o SubSeq(content, start + 1, Len(content))

IdleExtract ==
    /\ response_content = <<"">>
    /\ previous_content = <<"">>
    /\ extract_called = FALSE
    /\ extracted_code = <<"">>
    /\ fix_called = FALSE
    /\ fixed_code = <<"">>

IdleLog == log_calls = <<>>

max_retries == 3

LastStep == 6

DebateSteps == 1..LastStep

NotReturned == [returned |-> FALSE, success |-> FALSE, final_spec |-> "None"]

IdleDebate ==
    /\ proposer = FALSE
    /\ auditor = FALSE
    /\ debate_pc = "entry"
    /\ debate_step = 0
    /\ retry_count = 0
    /\ responses = [s \in DebateSteps |-> <<>>]
    /\ debate_log = <<>>
    /\ second_audit = "none"
    /\ refined_proposal_content = "none"
    /\ debate_result = NotReturned

IdleUnits == IdleDeps /\ IdleExtract /\ IdleLog /\ IdleDebate

IdleAux == IdleEnv /\ IdleDetect /\ IdleQuality /\ IdleConfig /\ IdleUnits

(***************************************************************************)
(* SpecSort: the scheduler applied to every bounded task list.             *)
(***************************************************************************)
\* The files of src/: the placeholder the scaffolding step writes for each
\* task, and one file that no task targets.
SourceFiles(orphan) == [p \in SourcePaths |-> IF p = OrphanPath THEN orphan ELSE "placeholder"]

IdlePipeline ==
    /\ drv = "start"
    /\ idx = 0
    /\ sweep_left = <<>>
    /\ err = NoError
    /\ pc = "idle"
    /\ cur = SweepTask(OrphanPath)
    /\ attempt_count = 0
    /\ completed = FALSE
    /\ current_content = "empty"
    /\ error_msg = ""
    /\ ledger = DevelopmentLog(tasks)
    /\ started = <<>>
    /\ active = {}
    /\ done_tasks = {}
    /\ effects = {}
    /\ last_child = "none"
    /\ run_ok = "none"
    /\ quality = "none"
    /\ last_oracle = [step |-> "none", outcome |-> "none"]
    /\ last_diag = "none"
    /\ step_calls = 0

InitSort ==
    /\ tasks \in TaskLists
    /\ sort_called = FALSE
    /\ sorted_tasks = <<>>
    /\ sort_raised = FALSE
    /\ files = SourceFiles("placeholder")
    /\ IdlePipeline
    /\ IdleAux

SortCall ==
    /\ ~sort_called
    /\ LET r == TopologicalSort(tasks)
       IN /\ sorted_tasks' = r.sorted
          /\ sort_raised' = r.raised
    /\ sort_called' = TRUE
    /\ UNCHANGED <<auxVars, tasks, drvVars, engVars, diskVars, obsVars>>

NextSort == SortCall

SpecSort == InitSort /\ [][NextSort]_vars

(***************************************************************************)
(* Spec: execute_coding_tasks over a family of projects: every bounded     *)
(* task list with a dependency cycle, and acyclic lists of several shapes. *)
(***************************************************************************)
CyclicLists == {ts \in TaskLists : HasCycle(ts)}

\* A(deps:[]), B(deps:[A]), C(deps:[A])
ForkProject == ProjectOf({<<2, IdAt(1)>>, <<3, IdAt(1)>>})

\* each task depends on the one declared after it
ReverseChainProject == ProjectOf({<<1, IdAt(2)>>, <<2, IdAt(3)>>})

\* a dependency that names no task of the list
ForeignDepProject == ProjectOf({<<1, ForeignId>>, <<2, IdAt(3)>>})

\* no dependencies; the title of the first task is the title of the second
\* one followed by one more word
PrefixTitleProject ==
    [k \in 1..NumTasks |->
        Task(IdAt(k), IF k = 1 THEN Append(TitleOf(IdAt(2)), "tests") ELSE TitleOf(IdAt(k)),
             <<>>)]

AcyclicProjects == {ForkProject, ReverseChainProject, ForeignDepProject, PrefixTitleProject}

Projects == CyclicLists \cup AcyclicProjects

\* What the file no task targets may hold: a placeholder, or a few lines of
\* code without any marker.
OrphanContents == {"placeholder", "thin"}

Init ==
    /\ tasks \in Projects
    /\ sort_called = FALSE
    /\ sorted_tasks = <<>>
    /\ sort_raised = FALSE
    /\ \E orphan \in OrphanContents : files = SourceFiles(orphan)
    /\ IdlePipeline
    /\ IdleAux

(***************************************************************************)
(* _execute_single_task, entry: ensure the target exists, reset the loop   *)
(* variables.                                                              *)
(***************************************************************************)
BeginEngine(task) ==
    /\ cur' = task
    /\ pc' = "loop"
    /\ completed' = FALSE
    /\ attempt_count' = 0
    /\ current_content' = "empty"
    /\ error_msg' = ""
    /\ files' = IF task.target_path \in DOMAIN files
                THEN files
                ELSE [q \in DOMAIN files \cup {task.target_path} |->
                         IF q \in DOMAIN files THEN files[q] ELSE "empty"]
    /\ started' = Append(started, task.id)
    /\ active' = active \cup {task.id}
    /\ last_child' = "none"
    /\ run_ok' = "none"
    /\ quality' = "none"
    /\ last_oracle' = [step |-> "none", outcome |-> "none"]
    /\ last_diag' = "none"
    /\ step_calls' = 0
    /\ UNCHANGED <<ledger, effects, done_tasks>>

(***************************************************************************)
(* execute_coding_tasks                                                    *)
(***************************************************************************)
\* sorted_tasks = self._topological_sort(self.project_spec.tasks)
D_Sort ==
    /\ drv = "start"
    /\ LET r == TopologicalSort(tasks)
       IN /\ sorted_tasks' = r.sorted
          /\ sort_raised' = r.raised
          /\ drv' = IF r.raised THEN "aborted" ELSE "tasks"
          /\ err' = IF r.raised THEN CycleError ELSE err
    /\ sort_called' = TRUE
    /\ UNCHANGED <<auxVars, tasks, idx, sweep_left, engVars, diskVars, obsVars>>

\* The loop walking project_spec.tasks instead of the sorted list.
LoopSequenceDeclared == tasks

\* the list the for loop of execute_coding_tasks walks
LoopSequence == sorted_tasks

\* for task in sorted_tasks: await self._execute_single_task(task)
D_NextTask ==
    /\ drv = "tasks"
    /\ pc = "idle"
    /\ idx < Len(LoopSequence)
    /\ idx' = idx + 1
    /\ BeginEngine(LoopSequence[idx + 1])
    /\ UNCHANGED <<auxVars, sortVars, drv, sweep_left, err>>

\* The paths of a set, as a list in ascending order of their stem.
RECURSIVE PathList(_)
PathList(S) ==
    IF S = {} THEN <<>>
    ELSE LET m == CHOOSE x \in S : \A y \in S : x[2] <= y[2]
         IN <<m>> \o PathList(S \ {m})

\* await self._discover_and_complete_pending_tasks(): the files of
\* src_path.glob("*.py"), taken in ascending order
D_StartSweep ==
    /\ drv = "tasks"
    /\ pc = "idle"
    /\ idx >= Len(LoopSequence)
    /\ drv' = "sweep"
    /\ sweep_left' = PathList(DOMAIN files)
    /\ UNCHANGED <<auxVars, sortVars, idx, err, engVars, diskVars, obsVars>>

\* Task(id=999, ...) against the field id: str of the schema: the integer is
\* converted by pydantic 1 and rejected with a ValidationError by pydantic 2.
\* The source pins neither.
TaskValidations == {"coerced", "rejected"}

\* _check_and_complete_file on the next file of the glob
D_SweepFile ==
    /\ drv = "sweep"
    /\ pc = "idle"
    /\ sweep_left # <<>>
    /\ sweep_left' = Tail(sweep_left)
    /\ IF NeedsCompletion(files[Head(sweep_left)])
       THEN \E validation \in TaskValidations :
               IF validation = "coerced"
               THEN /\ BeginEngine(SweepTask(Head(sweep_left)))
                    /\ UNCHANGED <<drv, err>>
               ELSE /\ drv' = "aborted"
                    /\ err' = SchemaError
                    /\ UNCHANGED <<engVars, diskVars, obsVars>>
       ELSE UNCHANGED <<drv, err, engVars, diskVars, obsVars>>
    /\ UNCHANGED <<auxVars, sortVars, idx>>

D_Finish ==
    /\ drv = "sweep"
    /\ pc = "idle"
    /\ sweep_left = <<>>
    /\ drv' = "done"
    /\ UNCHANGED <<auxVars, sortVars, idx, sweep_left, err, engVars, diskVars, obsVars>>

(***************************************************************************)
(* _execute_single_task, the loop                                          *)
(***************************************************************************)
Target == cur.target_path

\* The driver catching the exception of a task and going on.
PropagateCaught(e) ==
    /\ err' = e
    /\ drv' = drv
    /\ pc' = "idle"
    /\ active' = active \ {cur.id}

\* The target put back to what it was before the task.
DiskAfterRaiseRolledBack(fs, task) == [fs EXCEPT ![task.target_path] = "placeholder"]

\* raise RuntimeError(...): no handler and no cleanup between the last write
\* and the raise
DiskAfterRaise(fs, task) == fs

\* an exception leaves _execute_single_task and, uncaught, the driver
Propagate(e) ==
    /\ err' = e
    /\ drv' = "aborted"
    /\ pc' = "idle"
    /\ active' = active \ {cur.id}

\* while not completed and attempt_count < max_attempts: attempt_count += 1; read.
\* error_msg is dead here (assigned by the next run before it is read), and the
\* observations are per iteration: both start afresh.
\* The loop without its bound.
LoopGuardUnbounded == ~completed

LoopGuard == ~completed /\ attempt_count < max_attempts

E_LoopHead ==
    /\ pc = "loop"
    /\ IF LoopGuard
       THEN /\ attempt_count' = attempt_count + 1
            /\ current_content' = files[Target]
            /\ error_msg' = ""
            /\ last_child' = "none"
            /\ run_ok' = "none"
            /\ quality' = "none"
            /\ last_oracle' = [step |-> "none", outcome |-> "none"]
            /\ last_diag' = "none"
            /\ step_calls' = 0
            /\ pc' = "generate"
       ELSE /\ pc' = "after"
            /\ UNCHANGED <<attempt_count, current_content, error_msg, last_child, run_ok,
                           quality, last_oracle, last_diag, step_calls>>
    /\ UNCHANGED <<auxVars, sortVars, drvVars, cur, completed, diskVars, started, done_tasks,
                   active, effects>>

\* GENERATE and WRITE: generate_response, _extract_code_from_response,
\* _write_code_to_file, _check_global_dependencies
E_Generate ==
    /\ pc = "generate"
    /\ \E response \in OracleResponses, missing_deps \in BOOLEAN :
          /\ last_oracle' = [step |-> "generate", outcome |-> OracleOutcome(response)]
          /\ step_calls' = 1
          /\ IF response.raises
             THEN /\ pc' = "except"
                  /\ effects' = effects \cup {"oracle"}
                  /\ UNCHANGED files
             ELSE LET generated_code == ExtractCode(response, current_content)
                  IN /\ files' = [files EXCEPT
                                     ![Target] = WriteCode(generated_code, current_content)]
                     /\ effects' = effects \cup {"oracle", "write"}
                     /\ missing_deps => generated_code # "empty"
                     /\ pc' = IF missing_deps THEN "prefix" ELSE "run"
    /\ UNCHANGED <<auxVars, last_diag, sortVars,
                   drvVars, cur, attempt_count, completed, current_content,
                   error_msg, ledger, started, done_tasks, active, last_child, run_ok, quality>>

\* a call of _fix_code_with_ai followed by _write_code_to_file
FixAndWrite(step, next_pc) ==
    \E response \in OracleResponses :
       /\ last_oracle' = [step |-> step, outcome |-> OracleOutcome(response)]
       /\ step_calls' = 1
       /\ IF response.raises
          THEN /\ pc' = "except"
               /\ effects' = effects \cup {"oracle"}
               /\ UNCHANGED files
          ELSE LET generated_code == FixCodeWithAI(response, files[Target])
               IN /\ files' = [files EXCEPT
                                  ![Target] = WriteCode(generated_code, current_content)]
                  /\ effects' = effects \cup {"oracle", "write"}
                  /\ pc' = next_pc

\* the repair pass requested when _check_global_dependencies finds gaps
E_PreFix ==
    /\ pc = "prefix"
    /\ FixAndWrite("prefix", "run")
    /\ UNCHANGED <<auxVars, last_diag, sortVars,
                   drvVars, cur, attempt_count, completed, current_content,
                   error_msg, ledger, started, done_tasks, active, last_child, run_ok, quality>>

\* Success of the run taken as completion, whatever the verdict.
QualityGateIgnored ==
    /\ quality' = IF HasSubstantialContent(files[Target]) THEN "pass" ELSE "reject"
    /\ completed' = TRUE

\* success: re-read the file and apply _has_substantial_content
QualityGate ==
    /\ quality' = IF HasSubstantialContent(files[Target]) THEN "pass" ELSE "reject"
    /\ completed' = HasSubstantialContent(files[Target])

\* The rejected file handed to the failure branch.
AfterRejectDiagnoses == "diagnose"

\* else: continue
AfterReject == "loop"

\* RUN: success, error_msg = self._test_run_file(target_path)
E_Run ==
    /\ pc = "run"
    /\ \E child \in ChildResults :
          LET res == TestRunFile(child)
          IN /\ error_msg' = res.error_msg
             /\ last_child' = child
             /\ run_ok' = IF res.success THEN "ok" ELSE "fail"
             /\ IF res.success
                THEN /\ QualityGate
                     /\ pc' = IF HasSubstantialContent(files[Target])
                              THEN "loop" ELSE AfterReject
                ELSE /\ pc' = "diagnose"
                     /\ UNCHANGED <<quality, completed>>
    /\ effects' = effects \cup {"run"}
    /\ UNCHANGED <<auxVars, last_diag, sortVars,
                   drvVars, cur, attempt_count, current_content, diskVars,
                   started, done_tasks, active, last_oracle, step_calls>>

\* What DIAGNOSE can find: the text is no module error, detect_missing_modules
\* returns an empty list, install_missing_modules returns False or True.
Diagnoses(msg) ==
    IF IsModuleError(msg)
    THEN {"nothing_detected", "install_failed", "installed"}
    ELSE {"not_module"}

\* The sandbox run again whatever DIAGNOSE found.
DiagnoseNextAlwaysRerun(diag) == "rerun"

\* if missing_modules: ... if install_success: run again; otherwise on to REPAIR
DiagnoseNext(diag) == IF diag = "installed" THEN "rerun" ELSE "repair"

\* DIAGNOSE: detect_missing_modules and install_missing_modules
E_Diagnose ==
    /\ pc = "diagnose"
    /\ \E diag \in Diagnoses(error_msg) :
          /\ last_diag' = diag
          /\ pc' = DiagnoseNext(diag)
    /\ UNCHANGED <<auxVars, sortVars, drvVars, cur, attempt_count, completed,
                   current_content, error_msg, diskVars, started, done_tasks, active, effects,
                   last_child, run_ok, quality, last_oracle, step_calls>>

\* the run that follows a successful install; continue on success
E_Rerun ==
    /\ pc = "rerun"
    /\ \E child \in ChildResults :
          LET res == TestRunFile(child)
          IN /\ error_msg' = res.error_msg
             /\ last_child' = child
             /\ run_ok' = IF res.success THEN "ok" ELSE "fail"
             /\ IF res.success
                THEN /\ QualityGate
                     /\ pc' = "loop"
                ELSE /\ pc' = "repair"
                     /\ UNCHANGED <<quality, completed>>
    /\ effects' = effects \cup {"run"}
    /\ UNCHANGED <<auxVars, last_diag, sortVars,
                   drvVars, cur, attempt_count, current_content, diskVars,
                   started, done_tasks, active, last_oracle, step_calls>>

\* The loop head reached right after the write of the repair.
AfterRepairWriteSkipsRun == "loop"

\* the statement after the write of the repair: success, error_msg =
\* self._test_run_file(target_path)
AfterRepairWrite == "verify"

\* REPAIR: _fix_code_with_ai(target_path, error_msg), then WRITE
E_Repair ==
    /\ pc = "repair"
    /\ FixAndWrite("repair", AfterRepairWrite)
    /\ last_diag' = "none"
    /\ UNCHANGED <<auxVars, sortVars, drvVars, cur, attempt_count, completed,
                   current_content, error_msg, ledger, started, done_tasks, active, last_child,
                   run_ok, quality>>

\* the run that follows the repair
E_Verify ==
    /\ pc = "verify"
    /\ \E child \in ChildResults :
          LET res == TestRunFile(child)
          IN /\ error_msg' = res.error_msg
             /\ last_child' = child
             /\ run_ok' = IF res.success THEN "ok" ELSE "fail"
             /\ IF res.success
                THEN QualityGate
                ELSE UNCHANGED <<quality, completed>>
    /\ pc' = "loop"
    /\ effects' = effects \cup {"run"}
    /\ UNCHANGED <<auxVars, last_diag, sortVars,
                   drvVars, cur, attempt_count, current_content, diskVars,
                   started, done_tasks, active, last_oracle, step_calls>>

\* The handler re-raising at once.
HandlerRaisesAlways == TRUE

\* except Exception as e: if attempt_count >= max_attempts: raise RuntimeError(...)
HandlerRaises == attempt_count >= max_attempts

E_Except ==
    /\ pc = "except"
    /\ IF HandlerRaises
       THEN /\ Propagate(HandlerError)
            /\ files' = DiskAfterRaise(files, cur)
            /\ UNCHANGED <<idx, sweep_left>>
       ELSE /\ pc' = "loop"
            /\ UNCHANGED <<drvVars, active, files>>
    /\ UNCHANGED <<auxVars, last_diag, sortVars,
                   cur, attempt_count, completed, current_content, error_msg,
                   ledger, started, done_tasks, effects, last_child, run_ok, quality,
                   last_oracle, step_calls>>

\* if not completed: raise RuntimeError(...); self._update_development_log(task)
E_After ==
    /\ pc = "after"
    /\ IF ~completed
       THEN /\ Propagate(BudgetError)
            /\ files' = DiskAfterRaise(files, cur)
            /\ UNCHANGED <<idx, sweep_left, ledger, effects, done_tasks>>
       ELSE /\ ledger' = UpdateDevelopmentLog(ledger, cur)
            /\ effects' = effects \cup {"ledger"}
            /\ done_tasks' = done_tasks \cup {cur}
            /\ pc' = "idle"
            /\ active' = active \ {cur.id}
            /\ UNCHANGED <<drvVars, files>>
    /\ UNCHANGED <<auxVars, last_diag, sortVars,
                   cur, attempt_count, completed, current_content, error_msg,
                   started, last_child, run_ok, quality, last_oracle, step_calls>>

Next ==
    \/ D_Sort
    \/ D_NextTask
    \/ D_StartSweep
    \/ D_SweepFile
    \/ D_Finish
    \/ E_LoopHead
    \/ E_Generate
    \/ E_PreFix
    \/ E_Run
    \/ E_Diagnose
    \/ E_Rerun
    \/ E_Repair
    \/ E_Verify
    \/ E_Except
    \/ E_After

Spec == Init /\ [][Next]_vars

(***************************************************************************)
(* SpecEnv: the environment operations of one project root, called in any  *)
(* order, with the directory removed from outside now and then.            *)
(***************************************************************************)
\* The scheduler and the pipeline at rest on a fixed project.
IdleProject ==
    /\ tasks = ForkProject
    /\ sort_called = FALSE
    /\ sorted_tasks = <<>>
    /\ sort_raised = FALSE
    /\ files = SourceFiles("placeholder")
    /\ IdlePipeline

InitEnv ==
    /\ venv \in {"absent", "present"}
    /\ creations = 0
    /\ env_calls = 0
    /\ last_call = NoCall
    /\ installer_runs = NoRuns
    /\ IdleDetect
    /\ IdleQuality
    /\ IdleConfig
    /\ IdleProject
    /\ IdleUnits

\* Coder.setup_project_environment; venv.create is not guarded: its
\* exception leaves the method
SetupProjectEnvironment ==
    /\ env_calls < MaxEnvCalls
    /\ env_calls' = env_calls + 1
    /\ \E create \in CreateResults :
          LET creates == NeedsCreation(venv)
              raises == creates /\ create = "raises"
          IN /\ venv' = IF creates /\ ~raises THEN "present" ELSE venv
             /\ creations' = creations + (IF creates /\ ~raises THEN 1 ELSE 0)
             /\ last_call' = [op |-> "setup", found |-> venv,
                              created |-> IF creates /\ ~raises THEN 1 ELSE 0,
                              raised |-> raises, modules |-> <<>>, pip |-> <<>>,
                              invoked |-> <<>>, skipped |-> {}, success |-> ~raises]
    /\ UNCHANGED <<installer_runs, detectVars, qualityVars, configVars, pipelineVars, unitVars>>

\* EnvironmentManager.install_missing_modules
InstallCall ==
    /\ env_calls < MaxEnvCalls
    /\ env_calls' = env_calls + 1
    /\ \E modules \in ModuleLists :
          \E create \in [1..Len(modules) -> CreateResults],
             pip \in [1..Len(modules) -> PipResults] :
             LET st == InstallMissingModules(modules, create, pip, venv)
             IN /\ venv' = st.venv
                /\ creations' = creations + st.created
                /\ last_call' = [op |-> "install", found |-> venv, created |-> st.created,
                                 raised |-> FALSE, modules |-> modules, pip |-> pip,
                                 invoked |-> st.invoked, skipped |-> st.skipped,
                                 success |-> st.success]
                /\ installer_runs' =
                      [m \in ModuleNames |->
                          installer_runs[m] + Occurrences(m, st.invoked)]
    /\ UNCHANGED <<detectVars, qualityVars, configVars, pipelineVars, unitVars>>

\* The directory removed by something other than the program.
RemoveEnvironment ==
    /\ venv = "present"
    /\ env_calls < MaxEnvCalls
    /\ venv' = "absent"
    /\ last_call' = [NoCall EXCEPT !.op = "removed", !.found = venv]
    /\ UNCHANGED <<creations, env_calls, installer_runs, detectVars, qualityVars,
                   configVars, pipelineVars, unitVars>>

NextEnv ==
    \/ SetupProjectEnvironment
    \/ InstallCall
    \/ RemoveEnvironment

SpecEnv == InitEnv /\ [][NextEnv]_vars

(***************************************************************************)
(* SpecDetect: detect_missing_modules applied to every bounded failure     *)
(* text, with and without the project passed.                              *)
(***************************************************************************)
InitDetect ==
    /\ error_text \in ErrorTexts
    /\ project_known \in BOOLEAN
    /\ detect_called = FALSE
    /\ missing_modules = <<>>
    /\ IdleEnv
    /\ IdleQuality
    /\ IdleConfig
    /\ IdleProject
    /\ IdleUnits

DetectCall ==
    /\ ~detect_called
    /\ detect_called' = TRUE
    /\ missing_modules' = DetectMissingModules(error_text, project_known)
    /\ UNCHANGED <<error_text, project_known, envVars, qualityVars, configVars,
                   pipelineVars, unitVars>>

NextDetect == DetectCall

SpecDetect == InitDetect /\ [][NextDetect]_vars

(***************************************************************************)
(* SpecQuality: _has_substantial_content applied to every bounded text.    *)
(***************************************************************************)
InitQuality ==
    /\ content_text \in ContentTexts
    /\ substantial_called = FALSE
    /\ is_substantial = FALSE
    /\ IdleEnv
    /\ IdleDetect
    /\ IdleConfig
    /\ IdleProject
    /\ IdleUnits

SubstantialCall ==
    /\ ~substantial_called
    /\ substantial_called' = TRUE
    /\ is_substantial' = HasSubstantialContentOf(LinesOf(content_text, Len(content_text)))
    /\ UNCHANGED <<content_text, envVars, detectVars, configVars, pipelineVars, unitVars>>

NextQuality == SubstantialCall

SpecQuality == InitQuality /\ [][NextQuality]_vars

(***************************************************************************)
(* SpecConfig: the scaffolding step applied to every bounded task list,    *)
(* followed by the load of the configuration file.                         *)
(***************************************************************************)
InitConfig ==
    /\ tasks \in TaskLists
    /\ schema_extended \in BOOLEAN
    /\ config_file \in {NoFile, FileWithTasks(tasks)}
    /\ scaffold = "none"
    /\ load_result = NotLoaded
    /\ sort_called = FALSE
    /\ sorted_tasks = <<>>
    /\ sort_raised = FALSE
    /\ files = SourceFiles("placeholder")
    /\ IdlePipeline
    /\ IdleEnv
    /\ IdleDetect
    /\ IdleQuality
    /\ IdleUnits

ScaffoldCall ==
    /\ scaffold = "none"
    /\ LET r == CreateProjectStructure(tasks, schema_extended, config_file)
       IN /\ scaffold' = r.result
          /\ config_file' = r.file
    /\ UNCHANGED <<schema_extended, load_result, envVars, detectVars, qualityVars,
                   pipelineVars, unitVars>>

\* Coder.__init__: self.project_spec = self._load_project_spec()
LoadCall ==
    /\ scaffold # "none"
    /\ load_result = NotLoaded
    /\ load_result' = LoadProjectSpec(config_file)
    /\ UNCHANGED <<schema_extended, config_file, scaffold, envVars, detectVars, qualityVars,
                   pipelineVars, unitVars>>

NextConfig ==
    \/ ScaffoldCall
    \/ LoadCall

SpecConfig == InitConfig /\ [][NextConfig]_vars

(***************************************************************************)
(* SpecDeps: _check_global_dependencies applied to every bounded text.     *)
(***************************************************************************)
InitDeps ==
    /\ code_text \in CodeTexts
    /\ deps_called = FALSE
    /\ deps_found = <<>>
    /\ IdleLog
    /\ IdleDebate
    /\ IdleExtract
    /\ IdleEnv
    /\ IdleDetect
    /\ IdleQuality
    /\ IdleConfig
    /\ IdleProject

\* missing_deps = self._check_global_dependencies(generated_code)
CheckDepsCall ==
    /\ ~deps_called
    /\ deps_called' = TRUE
    /\ deps_found' = CheckGlobalDependencies(code_text)
    /\ UNCHANGED <<code_text, extractVars, logVars, debateVars, envVars, detectVars, qualityVars, configVars,
                   pipelineVars>>

NextDeps == CheckDepsCall

SpecDeps == InitDeps /\ [][NextDeps]_vars

(***************************************************************************)
(* SpecExtract: the two extractions applied to every bounded response.     *)
(***************************************************************************)
InitExtract ==
    /\ response_content \in ResponseTexts
    /\ previous_content \in OriginalContents
    /\ extract_called = FALSE
    /\ extracted_code = <<"">>
    /\ fix_called = FALSE
    /\ fixed_code = <<"">>
    /\ IdleLog
    /\ IdleDebate
    /\ IdleDeps
    /\ IdleEnv
    /\ IdleDetect
    /\ IdleQuality
    /\ IdleConfig
    /\ IdleProject

\* generated_code = self._extract_code_from_response(response, current_content)
ExtractCall ==
    /\ ~extract_called
    /\ extract_called' = TRUE
    /\ extracted_code' = ExtractCodeFromResponse(response_content, previous_content)
    /\ UNCHANGED <<response_content, previous_content, fix_called, fixed_code, depsVars,
                   logVars, debateVars, envVars, detectVars, qualityVars, configVars,
                   pipelineVars>>

\* fixed_code of _fix_code_with_ai when response["success"] holds
FixExtractCall ==
    /\ ~fix_called
    /\ fix_called' = TRUE
    /\ fixed_code' = FixExtract(response_content)
    /\ UNCHANGED <<response_content, previous_content, extract_called, extracted_code,
                   depsVars, logVars, debateVars, envVars, detectVars, qualityVars, configVars,
                   pipelineVars>>

NextExtract ==
    \/ ExtractCall
    \/ FixExtractCall

SpecExtract == InitExtract /\ [][NextExtract]_vars

(***************************************************************************)
(* SpecLog: _update_development_log called for the tasks of a project, in  *)
(* any order and more than once, on the log the scaffolding step wrote.    *)
(***************************************************************************)
InitLog ==
    /\ tasks \in AcyclicProjects
    /\ sort_called = FALSE
    /\ sorted_tasks = <<>>
    /\ sort_raised = FALSE
    /\ files = SourceFiles("placeholder")
    /\ IdlePipeline
    /\ IdleAux

\* self._update_development_log(task)
LogCall ==
    /\ Len(log_calls) < MaxLogCalls
    /\ \E k \in 1..Len(tasks) :
          /\ ledger' = UpdateDevelopmentLog(ledger, tasks[k])
          /\ log_calls' = Append(log_calls, k)
    /\ UNCHANGED <<sortVars, drvVars, engVars, files, obsVars, envVars, detectVars,
                   qualityVars, configVars, depsVars, extractVars, debateVars>>

NextLog == LogCall

SpecLog == InitLog /\ [][NextLog]_vars

(***************************************************************************)
(* Properties of the scheduler (checked under SpecSort).                   *)
(***************************************************************************)
\* k occurs exactly once in the list of identifiers ids
OccursOnce(ids, i) == Cardinality({j \in 1..Len(ids) : ids[j] = i}) = 1

\* C1: for an acyclic task list, _topological_sort returns (does not raise)
\* a permutation of the input, each task exactly once, in which every task
\* comes after all of its dependencies that are in the list.
C1_ValidTopologicalOrder ==
    (sort_called /\ ~HasCycle(tasks)) =>
        /\ ~sort_raised
        /\ Len(sorted_tasks) = Len(tasks)
        /\ \A k \in 1..Len(tasks) :
              /\ OccursOnce(IdsIn(sorted_tasks), tasks[k].id)
              /\ sorted_tasks[PosOf(sorted_tasks, tasks[k].id)] = tasks[k]
        /\ \A j \in 1..Len(sorted_tasks) :
              \A d \in InListDeps(sorted_tasks[j], tasks) :
                 /\ PosOf(sorted_tasks, d) > 0
                 /\ PosOf(sorted_tasks, d) < j

\* An acyclic list sorted into an order other than the declared one, with a
\* task that waits for two dependencies.
C1_Witness ==
    /\ sort_called
    /\ ~HasCycle(tasks)
    /\ ~sort_raised
    /\ IdsIn(sorted_tasks) # IdsIn(tasks)
    /\ \E k \in 1..Len(tasks) : Cardinality(InListDeps(tasks[k], tasks)) = 2

IsRoot(t) == InListDeps(t, tasks) = {}

RootTasks == SelectSeq(tasks, IsRoot)

\* Position in the result of the dependency of t that is scheduled last: the
\* task whose dequeuing makes t ready.
ReleasedAt(t) ==
    LET P == {PosOf(sorted_tasks, d) : d \in InListDeps(t, tasks)}
    IN CHOOSE m \in P : \A x \in P : x <= m

\* C7: the order is that of FIFO Kahn with declaration-order tie-break: the
\* tasks without in-list dependencies come first, in declaration order; the
\* others follow in the order in which they became ready, and those made ready
\* by the same dequeued task in declaration order.  For A, B(deps A), C(deps A)
\* declared in that order, A precedes B and B precedes C.
C7_FifoDeclarationOrder ==
    (sort_called /\ ~sort_raised) =>
        /\ SubSeq(sorted_tasks, 1, Len(RootTasks)) = RootTasks
        /\ \A i, j \in (Len(RootTasks) + 1)..Len(sorted_tasks) :
              i < j =>
                 \/ ReleasedAt(sorted_tasks[i]) < ReleasedAt(sorted_tasks[j])
                 \/ /\ ReleasedAt(sorted_tasks[i]) = ReleasedAt(sorted_tasks[j])
                    /\ PosOf(tasks, sorted_tasks[i].id) < PosOf(tasks, sorted_tasks[j].id)
        /\ (\A k \in 1..Len(tasks) :
               tasks[k].dependencies = IF k \in {2, 3} THEN <<IdAt(1)>> ELSE <<>>)
           => /\ PosOf(sorted_tasks, IdAt(1)) = 1
              /\ PosOf(sorted_tasks, IdAt(2)) < PosOf(sorted_tasks, IdAt(3))

\* The fork A, B(deps A), C(deps A) has been sorted: B and C became ready
\* together and B, declared first, is scheduled first.
C7_Witness ==
    /\ sort_called
    /\ ~sort_raised
    /\ \A k \in 1..Len(tasks) :
          tasks[k].dependencies = IF k \in {2, 3} THEN <<IdAt(1)>> ELSE <<>>
    /\ ReleasedAt(tasks[2]) = ReleasedAt(tasks[3])
    /\ PosOf(sorted_tasks, IdAt(2)) + 1 = PosOf(sorted_tasks, IdAt(3))

(***************************************************************************)
(* Properties of the pipeline (checked under Spec).                        *)
(***************************************************************************)
\* The files of src/ as they are before the pipeline has written any.
UntouchedFiles == {SourceFiles(orphan) : orphan \in OrphanContents}

\* C2: for a task list with a dependency cycle (a task depending on itself
\* included) _topological_sort raises and returns no order, and
\* execute_coding_tasks does not start: no oracle call, no write, no sandbox
\* run, no ledger update, for any task.
C2_CycleAbortsBeforeStart ==
    (sort_called /\ HasCycle(tasks)) =>
        /\ sort_raised
        /\ sorted_tasks = <<>>
        /\ drv = "aborted"
        /\ err.kind = "ValueError"
        /\ pc = "idle"
        /\ started = <<>>
        /\ effects = {}
        /\ NoMarkers(ledger)
        /\ files \in UntouchedFiles

\* A list with a task that depends on itself next to a task without
\* dependencies (a partial order would not be empty) has been rejected.
C2_Witness ==
    /\ sort_called
    /\ sort_raised
    /\ drv = "aborted"
    /\ \E k \in 1..Len(tasks) : tasks[k].id \in Range(tasks[k].dependencies)
    /\ \E k \in 1..Len(tasks) : tasks[k].dependencies = <<>>

InEngine == pc # "idle"

EngineRaises == InEngine /\ drv' = "aborted"

\* Steps of the loop body, in the order in which an iteration can take them.
StepsLeft ==
    CASE pc = "generate" -> 9
      [] pc = "prefix"   -> 8
      [] pc = "run"      -> 7
      [] pc = "diagnose" -> 6
      [] pc = "rerun"    -> 5
      [] pc = "repair"   -> 4
      [] pc = "verify"   -> 3
      [] pc = "except"   -> 2
      [] pc = "loop"     -> 1
      [] OTHER           -> 0

\* What an invocation can still do: iterations left, then steps left in this one.
Variant == (max_attempts - attempt_count) * 10 + StepsLeft

\* C3: one invocation of _execute_single_task runs at most 10 iterations: the
\* attempt counter stays in 0..10, every iteration adds exactly one to it (and
\* nothing else changes it but the reset of a new invocation), the invocation
\* ends only completed or by raising, and it cannot go on for ever: every step
\* inside it either ends it or lowers a variant that is never negative,
\* whatever the oracle and the sandbox answer.
C3_BoundedLoop ==
    /\ [](attempt_count \in 0..max_attempts /\ Variant >= 0)
    /\ [][/\ (pc = "loop" /\ pc' = "generate") => attempt_count' = attempt_count + 1
          /\ attempt_count' # attempt_count =>
                \/ pc = "loop" /\ pc' = "generate"
                \/ pc = "idle" /\ pc' = "loop" /\ attempt_count' = 0
          /\ (InEngine /\ pc' = "idle") => (completed \/ drv' = "aborted")
          /\ InEngine => (pc' # pc /\ (pc' = "idle" \/ Variant' < Variant))]_vars

\* The tenth iteration has begun with the file still not accepted.
C3_Witness ==
    /\ attempt_count = max_attempts
    /\ pc = "generate"
    /\ ~completed

\* C4: a task is completed only in an iteration in which the last sandbox run
\* succeeded and the quality check of the file read after that run passed;
\* the file on disk is then substantial.
C4_DoneNeedsRunAndQuality ==
    (InEngine /\ completed) =>
        /\ run_ok = "ok"
        /\ last_child = "exit0"
        /\ quality = "pass"
        /\ HasSubstantialContent(files[Target])

\* Completion reached by the run that follows a repair, after earlier
\* iterations that did not complete.
C4_Witness ==
    /\ InEngine
    /\ completed
    /\ attempt_count > 1
    /\ last_oracle.step = "repair"

TaskFailed == drv = "aborted" /\ err.kind = "RuntimeError"

\* C5: when the bound of 10 iterations is reached without completion,
\* _execute_single_task raises an error naming the task identifier and title;
\* the driver does not catch it: the run stops there, no later task of the
\* order is started, the discovery sweep does not run after a failed declared
\* task, and the failed task gets no completion marker.
C5_BudgetExhaustedAborts ==
    /\ [][/\ ((pc = "after" /\ ~completed) \/ (pc = "except" /\ attempt_count >= max_attempts))
              => (drv' = "aborted" /\ err'.kind = "RuntimeError"
                    /\ err'.names_id /\ err'.names_title)
          /\ drv # "aborted"]_vars
    /\ [](TaskFailed =>
            /\ attempt_count = max_attempts
            /\ ~completed
            /\ pc = "idle"
            /\ ~HasMarker(ledger, cur)
            /\ started[Len(started)] = cur.id
            /\ cur.id # SweepTaskId =>
                  /\ started = SubSeq(IdsIn(sorted_tasks), 1, idx)
                  /\ sweep_left = <<>>
                  /\ files[OrphanPath] \in OrphanContents)

\* The first task of the order has failed after the loop, with other tasks
\* still to run.
C5_Witness ==
    /\ TaskFailed
    /\ err.site = "after"
    /\ idx = 1
    /\ Len(sorted_tasks) > 1

DeclaredStarted == SelectSeq(started, LAMBDA i : i # SweepTaskId)

\* C6: tasks run one at a time in scheduler order: at most one task is inside
\* the engine, the tasks started are a prefix of the order returned by
\* _topological_sort, a task starts only when no invocation is under way, and
\* so every in-list prerequisite of a started task was started before it.
C6_SequentialInOrder ==
    /\ [](/\ Cardinality(active) <= 1
          /\ InEngine <=> active # {}
          /\ DeclaredStarted = SubSeq(IdsIn(sorted_tasks), 1, idx)
          /\ \A k \in 1..Len(DeclaredStarted) :
                \A d \in InListDeps(FindTask(tasks, DeclaredStarted[k]), tasks) :
                   \E m \in 1..(k - 1) : DeclaredStarted[m] = d)
    /\ [][Len(started') > Len(started) => (pc = "idle" /\ active = {})]_vars

\* All declared tasks have run, in an order other than the declared one.
C6_Witness ==
    /\ drv = "tasks"
    /\ pc = "idle"
    /\ idx = Len(tasks)
    /\ started = IdsIn(sorted_tasks)
    /\ IdsIn(sorted_tasks) # IdsIn(tasks)

OracleStep == pc \in {"generate", "prefix", "repair"}

RunStep == pc \in {"run", "rerun", "verify"}

C11_MarkerForEveryDone ==
    [][(pc = "after" /\ completed) => HasMarker(ledger', cur)]_vars

\* A declared task has reached DONE and returned, and no entry of its title
\* carries the marker: the lookup stopped at the marked entry of another task
\* whose title starts with the title of this one.
C11_Witness ==
    /\ pc = "idle"
    /\ completed
    /\ cur.id \in IdsOf(tasks)
    /\ "ledger" \in effects
    /\ ~HasMarker(ledger, cur)

(***************************************************************************)
(* The discovery sweep.                                                    *)
(***************************************************************************)
\* The sweep is about to visit the file at the head of its list.
SweepVisits == drv = "sweep" /\ pc = "idle" /\ sweep_left # <<>>

\* C12 as stated: the sweep starts only after every declared task has
\* reached DONE, and for every file it visits whose content is not
\* substantial it hands a synthesized task with the same target path to
\* _execute_single_task.
C12_SweepCompletesNonSubstantial ==
    /\ [](drv = "sweep" =>
            /\ idx = Len(sorted_tasks)
            /\ Len(sorted_tasks) = Len(tasks)
            /\ \A k \in 1..Len(tasks) : tasks[k].id \in Range(started))
    /\ [][(SweepVisits /\ ~HasSubstantialContent(files[Head(sweep_left)])) =>
             /\ pc' = "loop"
             /\ cur'.target_path = Head(sweep_left)
             /\ cur'.id \notin IdsOf(tasks)
             /\ drv' = "sweep"]_vars

\* The sweep has ended normally, and a file that is not substantial was
\* passed over: no synthesized task was ever handed to the engine.
C12_Witness ==
    /\ drv = "done"
    /\ ~HasSubstantialContent(files[OrphanPath])
    /\ SweepTaskId \notin Range(started)

(***************************************************************************)
(* Properties of the environment operations (checked under SpecEnv).       *)
(***************************************************************************)
\* One of the two operations has just been called.
EnvCallStep == env_calls' = env_calls + 1

\* C13 as stated: after every call of setup_project_environment or
\* install_missing_modules that returns, the environment exists; it is
\* created only by a call that finds it absent, and a call that finds it
\* present neither creates nor replaces it.
C13_EnvironmentAlwaysEnsured ==
    /\ []((last_call.op \in {"setup", "install"} /\ ~last_call.raised) => venv = "present")
    /\ [][EnvCallStep =>
             /\ creations' > creations => venv = "absent"
             /\ venv = "present" => (venv' = "present" /\ creations' = creations)]_vars

\* C13 amended: a call creates the environment at most once and only if it
\* finds it absent; a call that finds it present leaves it as it is; no
\* call removes it.  It exists after setup_project_environment returns, and
\* after install_missing_modules has got as far as the installer for some
\* name; install_missing_modules leaves it absent when it found it absent
\* and the list was empty or every venv.create raised (caught: the flag is
\* false).
C13_CreatesOnlyWhenAbsent ==
    /\ [][EnvCallStep =>
             /\ creations' <= creations + 1
             /\ creations' > creations => (venv = "absent" /\ venv' = "present")
             /\ venv = "present" => (venv' = "present" /\ creations' = creations)
             /\ venv' = "absent" => (venv = "absent" /\ creations' = creations)]_vars
    /\ []((last_call.op = "setup" /\ ~last_call.raised) => venv = "present")
    /\ []((last_call.op = "install" /\ last_call.invoked # <<>>) => venv = "present")
    /\ []((last_call.op = "install" /\ venv = "absent") =>
             /\ last_call.found = "absent"
             /\ last_call.invoked = <<>>
             /\ last_call.modules = <<>> \/ ~last_call.success)

\* The environment, removed after its first creation, has been created a
\* second time by install_missing_modules, once for a list of two names.
C13_Witness ==
    /\ last_call.op = "install"
    /\ last_call.found = "absent"
    /\ last_call.created = 1
    /\ Len(last_call.invoked) = 2
    /\ creations = 2
    /\ venv = "present"

\* The names of the list at the positions outside skipped, in order.
RECURSIVE Attempted(_, _, _)
Attempted(modules, skipped, k) ==
    IF k = 0 THEN <<>>
    ELSE IF k \in skipped
         THEN Attempted(modules, skipped, k - 1)
         ELSE Append(Attempted(modules, skipped, k - 1), modules[k])

\* C14 as stated: install_missing_modules invokes the installer exactly once
\* for each name of the list, in order, whatever happened for the earlier
\* names, and returns true exactly when every name was installed.
C14_InstallerOncePerName ==
    (last_call.op = "install") =>
        /\ last_call.invoked = last_call.modules
        /\ last_call.success <=>
              \A k \in 1..Len(last_call.modules) : last_call.pip[k] = "exit0"

\* C14 amended: every name of the list is attempted once, in order, whatever
\* happened for the earlier names: the environment is created first if it is
\* absent, then the installer is invoked for the name.  The installer is
\* skipped for a name only when that creation raises; this can only happen
\* for the first names of a call that found the environment absent.  The
\* flag is true exactly when no name was skipped and the installer exited
\* with 0 for every name.
C14_EveryNameAttempted ==
    (last_call.op = "install") =>
        /\ last_call.invoked = Attempted(last_call.modules, last_call.skipped,
                                         Len(last_call.modules))
        /\ last_call.found = "present" => last_call.skipped = {}
        /\ \E j \in 0..Len(last_call.modules) : last_call.skipped = 1..j
        /\ last_call.success <=>
              /\ last_call.skipped = {}
              /\ \A k \in 1..Len(last_call.modules) : last_call.pip[k] = "exit0"

\* Two names: the installer raised for the first and was still invoked for
\* the second, where it succeeded; the flag is false.
C14_Witness ==
    /\ last_call.op = "install"
    /\ Len(last_call.modules) = 2
    /\ last_call.pip[1] = "raises"
    /\ last_call.pip[2] = "exit0"
    /\ last_call.invoked = last_call.modules
    /\ ~last_call.success

(***************************************************************************)
(* Properties of detect_missing_modules (checked under SpecDetect).        *)
(***************************************************************************)
\* The text is one unresolved-module error, in the quoted form Python 3
\* prints, naming an import of the alias table that is neither a directory
\* of the project nor the module of a task.
OneAliasedModuleError ==
    /\ Len(error_text) = 1
    /\ error_text[1].form \in {"ModuleNotFoundError", "ImportError"}
    /\ error_text[1].name \in DOMAIN AliasTable
    /\ ~IsLocalModule([name |-> error_text[1].name, quoted |-> FALSE])
    /\ ~IsTaskModule([name |-> error_text[1].name, quoted |-> FALSE])

\* C15 as stated: for such a text detect_missing_modules returns exactly the
\* distributable package name of the import; the import name itself, in any
\* form, is not in the list.
C15_AliasOnly ==
    (detect_called /\ OneAliasedModuleError) =>
        /\ missing_modules = <<[name |-> AliasTable[error_text[1].name], quoted |-> FALSE]>>
        /\ \A k \in 1..Len(missing_modules) : missing_modules[k].name # error_text[1].name

\* "ModuleNotFoundError: No module named 'cv2'" has given opencv-python followed
\* by the import name in its quotes, which the third pattern captured.
C15_Witness ==
    /\ detect_called
    /\ error_text = <<[form |-> "ModuleNotFoundError", name |-> "cv2"]>>
    /\ missing_modules = <<[name |-> "opencv-python", quoted |-> FALSE],
                    [name |-> "cv2", quoted |-> TRUE]>>

(***************************************************************************)
(* Properties of _has_substantial_content (checked under SpecQuality).     *)
(***************************************************************************)
\* The lines left by the policy of the claim: a block comment opened and
\* closed on one line removes that line only.
PolicyLines(lines) == StripComments(lines, 1, FALSE, {"quotes"})

\* C16 as stated: _has_substantial_content is true exactly when, block
\* comments (a one-line block comment removing only its line), line comments
\* and blank lines removed, no line is a bare pass, no line has an
\* unfinished-work marker, at least 10 lines remain and at least 3 of them
\* are structurally significant or longer than 20 characters.
C16_SubstantialMatchesPolicy ==
    substantial_called =>
        (is_substantial <=> Verdict(PolicyLines(LinesOf(content_text, Len(content_text)))))

\* A text rejected although it passes the policy: a one-line block comment
\* followed by code lines with no other triple quote.
C16_Witness ==
    /\ substantial_called
    /\ ~is_substantial
    /\ Len(content_text) > 0
    /\ content_text[1] = [kind |-> "docstring", n |-> 1]
    /\ Verdict(PolicyLines(LinesOf(content_text, Len(content_text))))

(***************************************************************************)
(* Properties of the configuration file (checked under SpecConfig).        *)
(***************************************************************************)
\* C18 as stated: for a valid specification the file written by
\* create_project_structure carries the task list and the architecture
\* proposal, and _load_project_spec on it succeeds with the task list of the
\* specification, in order.
C18_ConfigRoundTrip ==
    (load_result # NotLoaded) =>
        /\ scaffold = "ok"
        /\ {"tasks", "architecture_proposal"} \subseteq config_file.keys
        /\ load_result = [raised |-> "none", tasks |-> tasks]

\* The scaffolding step has written its file, without the task list, and
\* the load has raised ValueError.
C18_Witness ==
    /\ scaffold = "ok"
    /\ "architecture_proposal" \in config_file.keys
    /\ "tasks" \notin config_file.keys
    /\ load_result.raised = "ValueError"

(***************************************************************************)
(* Failure reports and the flow of an iteration (checked under Spec).      *)
(***************************************************************************)
\* C17 as stated: whenever _execute_single_task fails a task, at either raise
\* site, the error carries the task identifier, the task title and the last
\* diagnostic text seen in the loop.
C17_FailureCarriesDiagnostic ==
    TaskFailed => (err.names_id /\ err.names_title /\ err.has_diag)

\* The task has failed after the loop, the last sandbox run having left a
\* failure text, and the error raised has no diagnostic text in it.
C17_Witness ==
    /\ TaskFailed
    /\ err.site = "after"
    /\ run_ok = "fail"
    /\ error_msg # ""
    /\ ~err.has_diag

\* A sandbox run has just succeeded on a file judged non-substantial.
Rejected == run_ok = "ok" /\ quality = "reject"

\* C19 as stated: after a successful run on a file judged non-substantial no
\* REPAIR is requested and no further run is made in the iteration, DONE is
\* not declared, and the next engine step is the GENERATE of the next
\* iteration with the attempt counter incremented by one.
C19_RejectAlwaysRegenerates ==
    /\ [][(RunStep /\ run_ok' = "ok" /\ quality' = "reject") =>
             (pc' = "loop" /\ ~completed' /\ attempt_count' = attempt_count)]_vars
    /\ [][(pc = "loop" /\ Rejected) =>
             (pc' = "generate" /\ attempt_count' = attempt_count + 1)]_vars

\* C19 amended: after a successful run on a file judged non-substantial (at
\* any of the three runs of an iteration) no REPAIR is requested and no
\* further run is made in the iteration, and DONE is not declared.  If fewer
\* than 10 iterations have been made, the next engine step is the GENERATE of
\* the next iteration, with the attempt counter incremented by one; after the
\* 10th iteration the loop ends and the invocation raises the error of the
\* exhausted budget.
C19_RejectRegeneratesWithinBudget ==
    /\ [][(RunStep /\ run_ok' = "ok" /\ quality' = "reject") =>
             (pc' = "loop" /\ ~completed' /\ attempt_count' = attempt_count)]_vars
    /\ [][(pc = "loop" /\ Rejected) =>
             IF attempt_count < max_attempts
             THEN pc' = "generate" /\ attempt_count' = attempt_count + 1
             ELSE pc' = "after" /\ attempt_count' = attempt_count]_vars
    /\ [][(pc = "after" /\ Rejected) => (drv' = "aborted" /\ err' = BudgetError)]_vars

\* The first run of an iteration has succeeded on a non-substantial file and
\* the next iteration has begun, no repair having been requested.
C19_Witness ==
    /\ pc = "loop"
    /\ Rejected
    /\ last_oracle.step = "generate"
    /\ last_diag = "none"
    /\ attempt_count < max_attempts

\* C20: in an iteration whose run fails with a module error, DIAGNOSE is
\* followed by one more run exactly when a module was detected and the install
\* succeeded; if that run succeeds the quality check decides (DONE, or the
\* next iteration) and no REPAIR is requested; in every other case (nothing
\* detected, install failed, the run failed again) the same iteration goes on
\* to REPAIR, which is followed by the write and one last run, or by the
\* handler if the repair call raises.
C20_DiagnoseRerunsOnce ==
    /\ [][pc = "diagnose" =>
             /\ IsModuleError(error_msg) <=> last_diag' # "not_module"
             /\ pc' = "rerun" <=> last_diag' = "installed"
             /\ pc' = "repair" <=> last_diag' # "installed"
             /\ attempt_count' = attempt_count
             /\ effects' = effects /\ files' = files]_vars
    /\ [][pc = "rerun" =>
             /\ last_diag = "installed"
             /\ attempt_count' = attempt_count
             /\ last_oracle' = last_oracle /\ files' = files
             /\ IF run_ok' = "ok"
                THEN pc' = "loop" /\ (completed' <=> quality' = "pass")
                ELSE pc' = "repair" /\ ~completed']_vars
    /\ [][pc = "repair" =>
             /\ attempt_count' = attempt_count
             /\ last_oracle'.step = "repair"
             /\ IF last_oracle'.outcome = "raise"
                THEN pc' = "except" /\ files' = files
                ELSE pc' = "verify"]_vars
    /\ [][pc = "verify" => (pc' = "loop" /\ attempt_count' = attempt_count)]_vars
    /\ [](pc = "rerun" => (last_oracle.step # "repair" /\ run_ok = "fail"))

\* The run that followed a successful install has failed again and the
\* iteration is about to request the repair.
C20_Witness ==
    /\ pc = "repair"
    /\ last_diag = "installed"
    /\ run_ok = "fail"
    /\ last_child = "exit_module"

(***************************************************************************)
(* The dependency check before the first run (checked under SpecDeps).     *)
(***************************************************************************)
\* The symbol families of the check: the patterns that count as a use and
\* those that count as the declaration.
Families ==
    {[name |-> "PyQt5", uses |-> {"QApplication"},
      declares |-> {"from PyQt5.QtWidgets import", "import PyQt5"}],
     [name |-> "sys", uses |-> {"sys.", "sys "}, declares |-> {"import sys"}],
     [name |-> "os", uses |-> {"os.", "os "}, declares |-> {"import os"}],
     [name |-> "opencv-python", uses |-> {"cv2.", "cv2 "}, declares |-> {"import cv2"}],
     [name |-> "numpy", uses |-> {"np.", "numpy"}, declares |-> {"import numpy"}]}

Uses(family, code) == \E p \in family.uses : In(p, code)

Declares(family, code) == \E p \in family.declares : In(p, code)

\* C21 as stated: the check reports a gap (and so the repair pass before the
\* first run is requested) if and only if the text uses a symbol family
\* without its declaration line; a text that uses a family and has its
\* declaration reports nothing for it.
C21_RepairIffUndeclaredUse ==
    deps_called =>
        /\ deps_found # <<>> <=> \E f \in Families : Uses(f, code_text) /\ ~Declares(f, code_text)
        /\ \A f \in Families :
              (Uses(f, code_text) /\ Declares(f, code_text)) => f.name \notin Range(deps_found)

\* The text "import sys" / "sys.exit(0)" has been checked and 'sys' is
\* reported missing.
C21_Witness ==
    /\ deps_called
    /\ Len(code_text) = 2
    /\ code_text[1].text = "import sys"
    /\ code_text[2].text = "sys.exit(0)"
    /\ deps_found = <<"sys">>

(***************************************************************************)
(* The text taken from a response (checked under SpecExtract).             *)
(***************************************************************************)
\* The response has a fenced block: a fence line and a later one closing it.
HasFencedBlock(content) ==
    \E i, j \in 1..Len(content) : i < j /\ IsFence(content[i]) /\ IsFence(content[j])

\* The lines of the first fenced block, from its opening fence to its own
\* closing fence.
FirstFencedBlock(content) ==
    LET fences == {k \in 1..Len(content) : IsFence(content[k])}
        open == Least(fences)
        close == Least(fences \ {open})
    IN SubSeq(content, open + 1, close - 1)

\* C22 as stated: the text taken from a response with fenced blocks is the
\* content of the first fenced block only (with the header of the previous
\* version put back in GENERATE), also with two blocks or more; without a
\* fenced block the raw response is taken.
C22_FirstBlockOnly ==
    /\ extract_called =>
          extracted_code =
             IF HasFencedBlock(response_content)
             THEN Strip(WithHeader(FirstFencedBlock(response_content) \o <<"">>,
                                   previous_content))
             ELSE Strip(response_content)
    /\ fix_called =>
          Strip(fixed_code) =
             IF HasFencedBlock(response_content)
             THEN Strip(FirstFencedBlock(response_content))
             ELSE Strip(response_content)

\* A response with two fenced blocks has gone through GENERATE's extraction,
\* and the text taken holds a fence line.
C22_Witness ==
    /\ extract_called
    /\ response_content = <<"[fence]python", "text", "[fence]", "[fence]python", "[fence]">>
    /\ \E k \in 1..Len(extracted_code) : IsFence(extracted_code[k])

(***************************************************************************)
(* The installer across the calls of one run (checked under SpecEnv).      *)
(***************************************************************************)
\* C23 as stated: the names already resolved in this run are not attempted
\* again: over all the calls of install_missing_modules of the run the
\* installer is invoked at most once for each dependency name.
C23_InstallerOncePerRun == \A m \in ModuleNames : installer_runs[m] <= 1

\* A second call for a name the installer had installed in an earlier call
\* of the run has invoked the installer for it again.
C23_Witness ==
    /\ last_call.op = "install"
    /\ last_call.modules = <<"opencv-python">>
    /\ last_call.invoked = <<"opencv-python">>
    /\ installer_runs["opencv-python"] = 2

(***************************************************************************)
(* The disk and the order of the run (checked under Spec).                 *)
(***************************************************************************)
\* C24: when _execute_single_task raises, nothing is rolled back: the raise
\* changes no file and no ledger entry, so the target keeps what the last
\* WRITE of the failed task put there; while a task is in the engine only its
\* own target is written, only by the oracle steps, and the ledger is not
\* touched before the task is completed.
C24_NothingRolledBack ==
    /\ [][EngineRaises =>
             (files' = files /\ ledger' = ledger /\ done_tasks' = done_tasks)]_vars
    /\ [][InEngine =>
             \A p \in DOMAIN files : p # Target => files'[p] = files[p]]_vars
    /\ [][(InEngine /\ files' # files) => OracleStep]_vars
    /\ [][(InEngine /\ ~completed) => ledger' = ledger]_vars

\* A task has failed on the exhausted budget after a repair was written: the
\* repaired, still thin, text is what the target holds.
C24_Witness ==
    /\ TaskFailed
    /\ err = BudgetError
    /\ last_oracle = [step |-> "repair", outcome |-> "ok"]
    /\ files[Target] = "thin"
    /\ current_content # "thin"

\* The engine is entered for a task.
BeginStep == pc = "idle" /\ pc' = "loop"

\* C25: whenever the engine starts on a task, declared or synthesized, every
\* task started before it in this run has ended DONE, these being all the
\* tasks earlier in the order of the scheduler (all declared tasks, for a
\* synthesized one); so every declared prerequisite of the task that is in
\* the list is DONE.
C25_EarlierTasksDone ==
    [][BeginStep =>
          /\ drv' # "aborted"
          /\ Cardinality(done_tasks) = Len(started)
          /\ \A k \in 1..Len(sorted_tasks) :
                (drv' = "sweep" \/ k < idx') => sorted_tasks[k] \in done_tasks
          /\ \A d \in InListDeps(cur', tasks) : \E t \in done_tasks : t.id = d]_vars

\* The engine has just been entered for the third task of a project, a task
\* with a prerequisite in the list, the two tasks before it being DONE.
C25_Witness ==
    /\ pc = "loop"
    /\ attempt_count = 0
    /\ Len(started) = 3
    /\ Cardinality(done_tasks) = 2
    /\ InListDeps(cur, tasks) # {}

\* C26: DONE is declared only by a sandbox run that succeeded on the file as
\* it is on disk and whose quality check passed on that same file; once DONE
\* is declared the engine writes nothing; and every WRITE (of the generation,
\* of the repair before the first run, of the repair after a failure) is
\* followed by a run: the generation by the repair before the run or by the
\* run, each repair by its run.
C26_DoneContentWasRun ==
    /\ [][(~completed /\ completed') =>
             /\ RunStep
             /\ files' = files
             /\ run_ok' = "ok"
             /\ quality' = "pass"
             /\ HasSubstantialContent(files'[Target])]_vars
    /\ [][(InEngine /\ completed) => (files' = files /\ pc' \in {"after", "idle"})]_vars
    /\ [][(OracleStep /\ pc' # "except") =>
             /\ pc = "generate" => pc' \in {"prefix", "run"}
             /\ pc = "prefix" => pc' = "run"
             /\ pc = "repair" => pc' = "verify"]_vars
    /\ [][(InEngine /\ pc' \in {"run", "rerun", "verify"}) =>
             pc \in {"generate", "prefix", "diagnose", "repair"}]_vars

\* DONE has been declared by the run that followed a repair, on the text the
\* repair wrote.
C26_Witness ==
    /\ completed
    /\ pc = "loop"
    /\ last_oracle = [step |-> "repair", outcome |-> "ok"]
    /\ run_ok = "ok"
    /\ files[Target] = "full"
    /\ current_content # "full"

\* C27 as stated: an oracle step (GENERATE or a repair) answered with
\* success=false leaves the target, and every other file, with the content it
\* had before the step.
C27_FailedOracleLeavesFile ==
    [][(OracleStep /\ last_oracle'.outcome = "fail") => files' = files]_vars

\* GENERATE was answered with success=false on a target that held the
\* placeholder, and the target is now empty.
C27_Witness ==
    /\ last_oracle = [step |-> "generate", outcome |-> "fail"]
    /\ current_content = "placeholder"
    /\ files[Target] = "empty"

(***************************************************************************)
(* Dependencies that name no task (checked under SpecSort).                *)
(***************************************************************************)
\* The dependencies of t that name no task of the list.
ForeignDeps(t, ts) == Range(t.dependencies) \ IdsOf(ts)

\* The task list without the dependencies that name no task of it.
WithoutForeignDeps(ts) ==
    [k \in 1..Len(ts) |->
        [ts[k] EXCEPT !.dependencies =
            SelectSeq(ts[k].dependencies, LAMBDA d : d \in IdsOf(ts))]]

\* C28: a dependency identifier that matches no task of the list is ignored:
\* the in-degree of each task counts its in-list dependencies only, the
\* result is the one the list gives without such identifiers (the same order,
\* or the same cycle error), and an acyclic list is returned whole.
C28_ForeignDependencyIgnored ==
    sort_called =>
        /\ \A k \in 1..Len(tasks) :
              FillGraph(EmptyGraph(tasks), tasks, 1).in_degree[tasks[k].id]
                 = Cardinality(InListDeps(tasks[k], tasks))
        /\ sort_raised = TopologicalSort(WithoutForeignDeps(tasks)).raised
        /\ IdsIn(sorted_tasks) = IdsIn(TopologicalSort(WithoutForeignDeps(tasks)).sorted)
        /\ ~HasCycle(tasks) => (~sort_raised /\ Len(sorted_tasks) = Len(tasks))

\* A list has been sorted in which one task names both a task of the list and
\* an identifier that no task carries, and another names only such an
\* identifier: all the tasks are returned.
C28_Witness ==
    /\ sort_called
    /\ ~sort_raised
    /\ Len(sorted_tasks) = Len(tasks)
    /\ \E k \in 1..Len(tasks) :
          ForeignDeps(tasks[k], tasks) # {} /\ InListDeps(tasks[k], tasks) # {}
    /\ \E k \in 1..Len(tasks) :
          ForeignDeps(tasks[k], tasks) # {} /\ InListDeps(tasks[k], tasks) = {}

(***************************************************************************)
(* The completion markers of the log (checked under SpecLog).              *)
(***************************************************************************)
\* C29 as stated: after _update_development_log has been called once or more
\* for a task, whatever the position of its entry, the last one included,
\* the log holds exactly one completion marker for the task; the entries of
\* the tasks it was not called for are as they were.
C29_OneMarkerPerTask ==
    \A k \in 1..Len(tasks) :
       IF k \in Range(log_calls)
       THEN ledger[k] = [heading |-> tasks[k].title, markers |-> 1]
       ELSE ledger[k] = DevelopmentLog(tasks)[k]

\* The method has been called twice for the task of the last entry, and the
\* entry holds two markers.
C29_Witness ==
    /\ tasks = ForkProject
    /\ log_calls = <<Len(tasks), Len(tasks)>>
    /\ ledger[Len(tasks)].markers = 2
    /\ \A k \in 1..(Len(tasks) - 1) : ledger[k] = DevelopmentLog(tasks)[k]

(***************************************************************************)
(* Orchestrator.conduct_debate: six steps, each a retry loop around one    *)
(* provider call.  The coroutine yields at each await of                   *)
(* generate_response; what runs between two awaits is one action.          *)
(***************************************************************************)

\* the provider a step awaits: the auditor in steps 2 and 4, else the proposer
StepProvider(s) == IF s \in {2, 4} THEN "auditor" ELSE "proposer"

\* Mutant of StepAborts: every step returns the failure when its loop is exhausted.
StepAbortsAlways(s) == TRUE

\* after the loop of step s, "if not r or not r['success']" returns the failure
\* (steps 1, 2, 3, 6) or falls back and goes on (steps 4, 5)
StepAborts(s) == s \in {1, 2, 3, LastStep}

FailureResult == [returned |-> TRUE, success |-> FALSE, final_spec |-> "None"]

\* _extract_json_from_response returns the parsed object or an error object
ExtractJsonResults == {"spec", "error"}

InitDebate ==
    /\ proposer \in BOOLEAN
    /\ auditor \in BOOLEAN
    /\ debate_pc = "entry"
    /\ debate_step = 0
    /\ retry_count = 0
    /\ responses = [s \in DebateSteps |-> <<>>]
    /\ debate_log = <<>>
    /\ second_audit = "none"
    /\ refined_proposal_content = "none"
    /\ debate_result = NotReturned
    /\ IdleDeps
    /\ IdleExtract
    /\ IdleLog
    /\ IdleEnv
    /\ IdleDetect
    /\ IdleQuality
    /\ IdleConfig
    /\ IdleProject

\* entry of conduct_debate up to the first await: the checks of the providers
ConductDebate ==
    /\ debate_pc = "entry"
    /\ IF proposer /\ auditor
       THEN /\ debate_pc' = "call"
            /\ debate_step' = 1
            /\ UNCHANGED <<debate_log, debate_result>>
       ELSE /\ debate_pc' = "returned"
            /\ debate_log' = <<"error">>
            /\ debate_result' = FailureResult
            /\ UNCHANGED debate_step
    /\ UNCHANGED <<proposer, auditor, retry_count, responses, second_audit,
                   refined_proposal_content>>
    /\ UNCHANGED <<depsVars, extractVars, logVars, envVars, detectVars, qualityVars,
                   configVars, pipelineVars>>

\* the code after the loop of step s, up to the next await or the return
AfterLoop(s, success) ==
    IF ~success /\ StepAborts(s)
    THEN /\ debate_pc' = "returned"
         /\ debate_result' = FailureResult
         /\ debate_log' = IF s = 1 THEN <<"error">> ELSE Append(debate_log, "error")
         /\ UNCHANGED <<debate_step, second_audit, refined_proposal_content>>
    ELSE IF s = LastStep
    THEN /\ debate_pc' = "returned"
         /\ \E final_spec \in ExtractJsonResults :
                debate_result' =
                    [returned |-> TRUE, success |-> TRUE, final_spec |-> final_spec]
         /\ debate_log' = Append(debate_log, "consensus")
         /\ UNCHANGED <<debate_step, second_audit, refined_proposal_content>>
    ELSE /\ debate_pc' = "call"
         /\ debate_step' = s + 1
         /\ debate_log' =
                IF success THEN Append(debate_log, StepProvider(s)) ELSE debate_log
         /\ second_audit' =
                IF s # 4 THEN second_audit
                ELSE IF success THEN "response" ELSE "fallback"
         /\ refined_proposal_content' =
                IF s # 5 THEN refined_proposal_content
                ELSE IF success THEN "refined" ELSE "first_improved"
         /\ UNCHANGED debate_result

\* one await of generate_response in the loop of the running step, with the
\* response's "success", and the code that follows it up to the next await
GenerateResponse(success) ==
    /\ debate_pc = "call"
    /\ LET s == debate_step
           rc == IF success THEN retry_count ELSE retry_count + 1
       IN  /\ responses' = [responses EXCEPT ![s] = Append(@, success)]
           /\ IF ~success /\ rc < max_retries
              THEN /\ retry_count' = rc
                   /\ UNCHANGED <<debate_pc, debate_step, debate_log, second_audit,
                                  refined_proposal_content, debate_result>>
              ELSE /\ AfterLoop(s, success)
                   /\ retry_count' = IF debate_pc' = "call" THEN 0 ELSE rc
    /\ UNCHANGED <<proposer, auditor>>
    /\ UNCHANGED <<depsVars, extractVars, logVars, envVars, detectVars, qualityVars,
                   configVars, pipelineVars>>

NextDebate ==
    \/ ConductDebate
    \/ \E success \in BOOLEAN : GenerateResponse(success)

SpecDebate == InitDebate /\ [][NextDebate]_vars

\* the loop of step s has ended: a success, or max_retries failures
LoopEnded(s) ==
    /\ responses[s] # <<>>
    /\ responses[s][Len(responses[s])] \/ Len(responses[s]) = max_retries

Exhausted(s) ==
    /\ Len(responses[s]) = max_retries
    /\ \A i \in 1..max_retries : ~responses[s][i]

\* C30: the six steps of conduct_debate run in program order; a step calls its
\* provider at most 3 times and makes no call after a response with
\* success = true; when step 1, 2, 3 or 6 fails 3 times the debate returns
\* success = false with final_spec None and no later step calls a provider;
\* when step 4 or 5 fails 3 times the debate goes on to the next step with the
\* fallback content.
C30_DebateSteps ==
    /\ [](\A s \in DebateSteps :
            /\ Len(responses[s]) <= max_retries
            /\ \A i \in 1..(Len(responses[s]) - 1) : ~responses[s][i]
            /\ responses[s] # <<>> =>
                   /\ debate_step >= s
                   /\ \A t \in 1..(s - 1) : LoopEnded(t)
            /\ Exhausted(s) /\ s \in {1, 2, 3, 6} =>
                   /\ debate_result = FailureResult
                   /\ \A t \in (s + 1)..LastStep : responses[t] = <<>>)
    /\ [](Exhausted(4) => second_audit = "fallback" /\ debate_step >= 5)
    /\ [](Exhausted(5) =>
              refined_proposal_content = "first_improved" /\ debate_step = LastStep)
    /\ [][\A s \in DebateSteps :
            responses'[s] # responses[s] =>
                /\ debate_step = s
                /\ ~LoopEnded(s)
                /\ ~debate_result.returned
                /\ \A t \in DebateSteps \ {s} : responses'[t] = responses[t]]_vars
    /\ [][debate_step' >= debate_step]_vars

\* steps 4 and 5 fell back, and step 6, a mandatory step, failed 3 times
C30_Witness ==
    /\ Exhausted(4)
    /\ Exhausted(5)
    /\ Exhausted(LastStep)
    /\ debate_result = FailureResult

=============================================================================
